---- MODULE Spec2Model ----
(***************************************************************************)
(* A model of Aqua-ML-App: the domain feature deriver (src/src/features.py,*)
(* src/src/preprocessing.py), the evaluation harness                       *)
(* (src/src/evaluation.py), the hyper-parameter tuner (src/src/tunning.py) *)
(* and the single-record sweep engine of the app (src/aqua_ml_app.py).     *)
(*                                                                         *)
(* Numbers are scaled integers: table cells of the app and of the feature  *)
(* deriver are in tenths, the solute descriptors E,S,A,B,V in 1/10000,     *)
(* molar ratios in 1/1000.  A table (pandas DataFrame) is a record         *)
(* [cols, rows]: the ordered column labels and, per row, a function from   *)
(* label to cell.  A call that may mutate what the caller passed returns   *)
(* the caller's object along with its result, so that aliasing is visible. *)
(***************************************************************************)
EXTENDS Integers, Sequences, FiniteSets, TLC

VARIABLES
    \* --- feature deriver (DomainFE and features.py)
    X_in,        \* the caller's input table
    pharm_df,    \* features._pharm_df, the module-level descriptor table
    fe_out,      \* what the last call returned
    fe_first,    \* what the first transform of X_in returned
    fe_between,  \* whether another call followed the first transform
    fe_calls,    \* calls made so far
    \* --- evaluation harness (evaluate_and_plot)
    ev_in,       \* the arguments: candidates, training rows, the shuffle
    ev_out,      \* what the call returned
    \* --- hyper-parameter tuner (run_hpo_top2)
    hpo_in,      \* the arguments and what each randomized search measures
    hpo_out,     \* what the call returned
    \* --- the app (single-record flow; start-up and batch flow) and the
    \* --- test script
    app_in,      \* the submitted form and the loaded pipeline; or the
                 \* artifact files, the fitted pipeline and the uploaded table
    app_out,     \* what the submit handler showed; or what the loader, the
                 \* batch flow and the test script did
    \* --- the training preparation (prepare_ml_data, build_model_pool) and
    \* --- the estimator wrappers
    tr_in,       \* the raw table, the shuffle of the split, config.have; or
                 \* the wrapper class and whether its library is installed
    tr_out       \* what prepare_ml_data and build_model_pool returned; or
                 \* the wrapper object and the calls made on it

fe_vars == <<X_in, pharm_df, fe_out, fe_first, fe_between, fe_calls>>

ev_vars == <<ev_in, ev_out>>

hpo_vars == <<hpo_in, hpo_out>>

app_vars == <<app_in, app_out>>

tr_vars == <<tr_in, tr_out>>

vars == <<fe_vars, ev_vars, hpo_vars, app_vars, tr_vars>>

\* a part of the program that a specification leaves out is not running
EV_Idle == ev_in = <<>> /\ ev_out = <<>>

HPO_Idle == hpo_in = <<>> /\ hpo_out = <<>>

APP_Idle == app_in = <<>> /\ app_out = <<>>

TR_Idle == tr_in = <<>> /\ tr_out = <<>>

-----------------------------------------------------------------------------
(* Cells: a float, NaN/None, a string (a sequence of characters), or a     *)
(* category value (astype("category")).                                    *)

NaN == [t |-> "nan", n |-> 0, s |-> <<>>]

\* +inf (n = 1) or -inf (n = -1)
Inf(sign) == [t |-> "inf", n |-> sign, s |-> <<>>]

Num(k) == [t |-> "num", n |-> k, s |-> <<>>]

Str(cs) == [t |-> "str", n |-> 0, s |-> cs]

IsNum(c) == c.t = "num"

\* c < 0 as pandas evaluates it (False for NaN)
IsNegative(c) == (c.t = "num" /\ c.n < 0) \/ (c.t = "inf" /\ c.n < 0)

IsNull(c) == c.t = "nan"

LowerCh == <<"a","b","c","d","e","f","g","h","i","j","k","l","m",
             "n","o","p","q","r","s","t","u","v","w","x","y","z">>

UpperCh == <<"A","B","C","D","E","F","G","H","I","J","K","L","M",
             "N","O","P","Q","R","S","T","U","V","W","X","Y","Z">>

DigitCh == <<"0","1","2","3","4","5","6","7","8","9">>

IsSpace(ch) == ch \in {" ", "\t"}

\* str.upper(), one character
UpperOf(ch) ==
    IF \E i \in DOMAIN LowerCh : LowerCh[i] = ch
    THEN UpperCh[CHOOSE i \in DOMAIN LowerCh : LowerCh[i] = ch]
    ELSE ch

\* Series.str.upper()
StrUpper(cs) == [i \in DOMAIN cs |-> UpperOf(cs[i])]

RECURSIVE LStrip(_)
LStrip(cs) ==
    IF cs # <<>> /\ IsSpace(Head(cs)) THEN LStrip(Tail(cs)) ELSE cs

RECURSIVE RStrip(_)
RStrip(cs) ==
    IF cs # <<>> /\ IsSpace(cs[Len(cs)])
    THEN RStrip(SubSeq(cs, 1, Len(cs) - 1))
    ELSE cs

\* Series.str.strip()
StrStrip(cs) == RStrip(LStrip(cs))

IsDigit(ch) == \E i \in DOMAIN DigitCh : DigitCh[i] = ch

DigitVal(ch) == (CHOOSE i \in DOMAIN DigitCh : DigitCh[i] = ch) - 1

RECURSIVE DigitsValue(_)
DigitsValue(cs) ==
    IF cs = <<>> THEN 0
    ELSE DigitsValue(SubSeq(cs, 1, Len(cs) - 1)) * 10 + DigitVal(cs[Len(cs)])

RECURSIVE DigitsOf(_)
DigitsOf(k) ==
    IF k < 10 THEN <<DigitCh[k + 1]>>
    ELSE Append(DigitsOf(k \div 10), DigitCh[(k % 10) + 1])

\* Series.astype(str): the text of a cell
AsStr(c) ==
    CASE c.t = "str" -> c.s
      [] c.t = "cat" -> c.s
      [] c.t = "nan" -> <<"n","a","n">>
      [] c.t = "inf" -> IF c.n < 0 THEN <<"-","i","n","f">> ELSE <<"i","n","f">>
      [] c.t = "num" -> IF c.n < 0 THEN <<"-">> \o DigitsOf(0 - c.n)
                        ELSE DigitsOf(c.n)

\* pd.to_numeric(..., errors="coerce"), one cell: a number stays, a string
\* is parsed when it is a (signed) run of digits, anything else is NaN
ToNumeric(c) ==
    CASE c.t = "num" -> c
      [] c.t = "inf" -> c
      [] c.t = "nan" -> NaN
      [] OTHER ->
           LET body == StrStrip(c.s)
               neg  == body # <<>> /\ Head(body) = "-"
               digs == IF neg THEN Tail(body) ELSE body
           IN  IF digs # <<>> /\ \A i \in DOMAIN digs : IsDigit(digs[i])
               THEN Num(IF neg THEN 0 - DigitsValue(digs) ELSE DigitsValue(digs))
               ELSE NaN

\* Series.fillna(other), one cell
FillNa(c, other) == IF IsNull(c) THEN other ELSE c

\* Series.astype("category"), one cell
AsCategory(c) ==
    IF IsNull(c) THEN NaN ELSE [t |-> "cat", n |-> 0, s |-> AsStr(c)]

-----------------------------------------------------------------------------
(* Tables                                                                  *)

EmptyTable == [cols |-> <<>>, rows |-> <<>>]

\* a table built by an operation is a value of its own, computed once
Frame(cols, rows) ==
    LET df == [cols |-> cols, rows |-> rows]
    IN  IF df = df THEN df ELSE EmptyTable

ColSet(df) == {df.cols[i] : i \in DOMAIN df.cols}

HasCol(df, c) == c \in ColSet(df)

RowIdx(df) == DOMAIN df.rows

\* df[c] = vals (vals: row index -> cell); a new label is appended
SetCol(df, c, vals) ==
    Frame(IF HasCol(df, c) THEN df.cols ELSE Append(df.cols, c),
          [i \in RowIdx(df) |-> (c :> vals[i]) @@ df.rows[i]])

\* df.drop(columns=cs, errors="ignore")
DropCols(df, cs) ==
    LET keep(c) == c \notin cs
    IN  Frame(SelectSeq(df.cols, keep),
              [i \in RowIdx(df) |->
                  [c \in (DOMAIN df.rows[i]) \ cs |-> df.rows[i][c]]])

SelectCols_all(df, cs) == df

\* df[cs] for labels that are all present
SelectCols(df, cs) ==
    Frame(cs, [i \in RowIdx(df) |-> [c \in {cs[k] : k \in DOMAIN cs} |-> df.rows[i][c]]])

\* df.rename(columns=m), m a function on some labels
RenameCols(df, m) ==
    LET new(c) == IF c \in DOMAIN m THEN m[c] ELSE c
    IN  Frame([k \in DOMAIN df.cols |-> new(df.cols[k])],
              [i \in RowIdx(df) |->
                  [d \in {new(c) : c \in DOMAIN df.rows[i]} |->
                     df.rows[i][CHOOSE c \in DOMAIN df.rows[i] : new(c) = d]]])

RECURSIVE Flatten(_)
Flatten(ss) == IF ss = <<>> THEN <<>> ELSE Head(ss) \o Flatten(Tail(ss))

\* left.merge(right, on=key, how="left") for tables whose only shared label
\* is the key: a left row is kept once per matching right row, or once with
\* the right columns null
MergeLeft(left, right, key) ==
    LET rcols    == SelectSeq(right.cols, LAMBDA c : c # key)
        rset     == {rcols[k] : k \in DOMAIN rcols}
        hits(i)  == SelectSeq([j \in DOMAIN right.rows |-> j],
                              LAMBDA j : right.rows[j][key] = left.rows[i][key])
        join(i, j) == [c \in rset |-> right.rows[j][c]] @@ left.rows[i]
        miss(i)  == [c \in rset |-> NaN] @@ left.rows[i]
        out(i)   == IF hits(i) = <<>> THEN <<miss(i)>>
                    ELSE [k \in DOMAIN hits(i) |-> join(i, hits(i)[k])]
    IN  Frame(left.cols \o rcols, Flatten([i \in DOMAIN left.rows |-> out(i)]))

-----------------------------------------------------------------------------
(* features.py                                                             *)

\* _pharm_data: (code, E, S, A, B, V), descriptors in 1/10000
pharm_data ==
   << <<<<"P","H","E">>, 8500, 9500, 3000, 7800, 11156>>,
      <<<<"A","P","A","P">>, 10600, 16300, 10400, 8600, 11724>>,
      <<<<"A","S","A">>, 7800, 16900, 7100, 6700, 12879>>,
      <<<<"B","E","N","Z">>, 10300, 13100, 3100, 6900, 13133>>,
      <<<<"C","A","F">>, 15000, 17200, 500, 12800, 13632>>,
      <<<<"C","I","P">>, 22000, 23400, 7000, 25200, 23040>>,
      <<<<"C","I","T">>, 18300, 19900, 0, 15300, 25328>>,
      <<<<"D","C","F">>, 18100, 18500, 5500, 7700, 20250>>,
      <<<<"F","L","X">>, 12300, 13000, 1200, 10300, 22403>>,
      <<<<"I","B","U">>, 7300, 7000, 5600, 7900, 17771>>,
      <<<<"M","T","Z">>, 11200, 17900, 3700, 10400, 11919>>,
      <<<<"N","P","X">>, 15100, 20200, 6000, 6700, 17821>>,
      <<<<"N","O","R">>, 19800, 25000, 500, 23900, 22724>>,
      <<<<"O","T","C">>, 36000, 30500, 16500, 35000, 31579>>,
      <<<<"S","A">>, 9000, 8500, 7300, 3700, 9904>>,
      <<<<"S","D","Z">>, 20800, 25500, 6500, 13700, 17225>>,
      <<<<"S","M","R">>, 21000, 26500, 6500, 14200, 18634>>,
      <<<<"S","M","T">>, 21300, 25300, 5900, 15300, 20043>>,
      <<<<"S","M","X">>, 18900, 22300, 5800, 12900, 17244>>,
      <<<<"T","C">>, 35000, 36000, 13500, 32900, 30992>>,
      <<<<"C","B","Z">>, 21500, 19000, 5000, 11500, 18106>> >>

map_cols == <<"E", "S", "A", "B", "V">>

\* tmp_map = {c: f"__map_{c}"}
tmp_map ==
    [c \in {"E", "S", "A", "B", "V"} |->
        CASE c = "E" -> "__map_E" [] c = "S" -> "__map_S" [] c = "A" -> "__map_A"
          [] c = "B" -> "__map_B" [] c = "V" -> "__map_V"]

\* _pharm_df as built at import time, with its pharm_code_norm column
pharm_df_initial ==
    [cols |-> <<"Pharmaceutical_code", "E", "S", "A", "B", "V", "pharm_code_norm">>,
     rows |-> [i \in DOMAIN pharm_data |->
        [c \in {"Pharmaceutical_code", "E", "S", "A", "B", "V", "pharm_code_norm"} |->
           CASE c = "Pharmaceutical_code" -> Str(pharm_data[i][1])
             [] c = "pharm_code_norm" -> Str(StrUpper(StrStrip(pharm_data[i][1])))
             [] c = "E" -> Num(pharm_data[i][2])
             [] c = "S" -> Num(pharm_data[i][3])
             [] c = "A" -> Num(pharm_data[i][4])
             [] c = "B" -> Num(pharm_data[i][5])
             [] c = "V" -> Num(pharm_data[i][6])]]]

\* the outcome of a call: err, the caller's table and the module table as
\* they are after the call, and the returned table
Returned(arg, pdf, ret) == [err |-> "none", arg |-> arg, pharm |-> pdf, ret |-> ret]

Raised(e, arg, pdf) == [err |-> e, arg |-> arg, pharm |-> pdf, ret |-> EmptyTable]

\* pharm_code_norm = Target_Phar.astype(str).str.strip().str.upper()
NormCode(c) == Str(StrUpper(StrStrip(AsStr(c))))

add_pharm_features_inplace(df, pdf) ==
    IF ~HasCol(df, "Target_Phar") THEN Raised("KeyError", df, pdf)
    ELSE IF ~({"pharm_code_norm", "E", "S", "A", "B", "V"} \subseteq ColSet(pdf))
    THEN Raised("KeyError", df, pdf)
    ELSE
      LET d1 == SetCol(df, "pharm_code_norm",
                       [i \in RowIdx(df) |-> NormCode(df.rows[i]["Target_Phar"])])
          renamed == RenameCols(pdf, tmp_map)
          pharm_merge == SelectCols(renamed,
                           <<"pharm_code_norm", "__map_E", "__map_S", "__map_A",
                             "__map_B", "__map_V">>)
      IN  Returned(d1, renamed, MergeLeft(d1, pharm_merge, "pharm_code_norm"))

\* add_pharm_features: works on a copy, reads _pharm_df through a selection
\* and a renamed copy
add_pharm_features(df, pdf) ==
    IF ~HasCol(df, "Target_Phar") THEN Raised("KeyError", df, pdf)
    ELSE IF ~({"pharm_code_norm", "E", "S", "A", "B", "V"} \subseteq ColSet(pdf))
    THEN Raised("KeyError", df, pdf)
    ELSE
      LET d1 == SetCol(df, "pharm_code_norm",
                       [i \in RowIdx(df) |-> NormCode(df.rows[i]["Target_Phar"])])
          pharm_merge == RenameCols(
                           SelectCols(pdf, <<"pharm_code_norm">> \o map_cols),
                           tmp_map)
      IN  Returned(df, pdf, MergeLeft(d1, pharm_merge, "pharm_code_norm"))

SeqSet(cs) == {cs[k] : k \in DOMAIN cs}

CleanCell_overwrite(df, row, c) == row[tmp_map[c]]

\* the value the first loop of clean_pharm_features gives column c in a row:
\* an existing value is kept when numeric, the mapped one fills the gaps
CleanCell(df, row, c) ==
    IF HasCol(df, c) THEN FillNa(ToNumeric(row[c]), row[tmp_map[c]])
    ELSE row[tmp_map[c]]

\* the first loop of clean_pharm_features: every c whose helper column is
\* present is filled or created, and the helper column dropped
CleanLoop(df) ==
    LET found == SelectSeq(map_cols, LAMBDA c : HasCol(df, tmp_map[c]))
        made  == SelectSeq(found, LAMBDA c : ~HasCol(df, c))
        gone  == {tmp_map[c] : c \in SeqSet(found)}
    IN  Frame(SelectSeq(df.cols \o made, LAMBDA d : d \notin gone),
              [i \in RowIdx(df) |->
                 [d \in ((DOMAIN df.rows[i]) \cup SeqSet(found)) \ gone |->
                    IF d \in SeqSet(found) THEN CleanCell(df, df.rows[i], d)
                    ELSE df.rows[i][d]]])

\* for c in cs: if c in df.columns: df[c] = pd.to_numeric(df[c],
\* errors="coerce")
CoerceCols(df, cs) ==
    Frame(df.cols,
          [i \in RowIdx(df) |->
             [c \in DOMAIN df.rows[i] |->
                IF c \in SeqSet(cs) THEN ToNumeric(df.rows[i][c]) ELSE df.rows[i][c]]])

\* clean_pharm_features (on a copy of df)
clean_pharm_features(df) ==
    CoerceCols(DropCols(CleanLoop(df), {"pharm_code_norm"}), map_cols)

\* atomic weights, in 1/1000 g/mol
aw == [e \in {"C", "H", "O", "N", "S"} |->
         CASE e = "C" -> 12011 [] e = "H" -> 1008 [] e = "O" -> 15999
           [] e = "N" -> 14007 [] e = "S" -> 32060]

PercentCols == <<"C_percent", "O_percent", "H_percent", "N_percent", "S_percent">>

RatioCols == <<"C_molar", "H_C_molar", "O_C_molar", "N_C_molar", "S_C_molar">>

MaskC_nonnull(row) == IsNum(row["C_percent"])

\* maskC, one row: C notna and C > 0
MaskC(row) == IsNum(row["C_percent"]) /\ row["C_percent"].n > 0

\* C / aw["C"], in 1/1000 mol for C in tenths of a percent
CMolar(row) == Num((row["C_percent"].n * 100000) \div aw["C"])

\* (X / aw[e]) / denom, in 1/1000, with the float rules: NaN when X is NaN,
\* and x/0 is +inf, -inf or NaN
RatioOf(row, col, e) ==
    IF ~IsNum(row[col]) THEN NaN
    ELSE IF row["C_percent"].n = 0
    THEN IF row[col].n > 0 THEN Inf(1) ELSE IF row[col].n < 0 THEN Inf(-1) ELSE NaN
    ELSE Num((row[col].n * aw["C"] * 1000) \div (aw[e] * row["C_percent"].n))

\* the percent column and the element behind each ratio column
RatioSource ==
    [r \in {"H_C_molar", "O_C_molar", "N_C_molar", "S_C_molar"} |->
       CASE r = "H_C_molar" -> <<"H_percent", "H">>
         [] r = "O_C_molar" -> <<"O_percent", "O">>
         [] r = "N_C_molar" -> <<"N_percent", "N">>
         [] r = "S_C_molar" -> <<"S_percent", "S">>]

\* df.loc[maskC, r] = ..., one row: a row outside the mask keeps its cell,
\* or is NaN in a column that is new
RatioCell(df, row, r) ==
    IF MaskC(row)
    THEN IF r = "C_molar" THEN CMolar(row)
         ELSE RatioOf(row, RatioSource[r][1], RatioSource[r][2])
    ELSE IF HasCol(df, r) THEN row[r] ELSE NaN

\* the assignments under "if C in df.columns": C_molar, and each ratio
\* whose percent column is present
RatioStep(df) ==
    LET written == SelectSeq(RatioCols,
                     LAMBDA r : r = "C_molar" \/ HasCol(df, RatioSource[r][1]))
        made    == SelectSeq(written, LAMBDA r : ~HasCol(df, r))
    IN  Frame(df.cols \o made,
              [i \in RowIdx(df) |->
                 [d \in (DOMAIN df.rows[i]) \cup SeqSet(written) |->
                    IF d \in SeqSet(written) THEN RatioCell(df, df.rows[i], d)
                    ELSE df.rows[i][d]]])

\* the closing loop: to_numeric, then df.loc[df[r] < 0, r] = 0
ClampCell(c) == IF IsNegative(ToNumeric(c)) THEN Num(0) ELSE ToNumeric(c)

\* for r in cs: if r in df.columns: clamp the column
ClampCols(df, cs) ==
    Frame(df.cols,
          [i \in RowIdx(df) |->
             [c \in DOMAIN df.rows[i] |->
                IF c \in SeqSet(cs) THEN ClampCell(df.rows[i][c]) ELSE df.rows[i][c]]])

\* add_elemental_ratios (on a copy of df)
add_elemental_ratios(df) ==
    IF HasCol(df, "C_percent")
    THEN ClampCols(RatioStep(CoerceCols(df, PercentCols)), RatioCols)
    ELSE CoerceCols(df, PercentCols)

-----------------------------------------------------------------------------
(* preprocessing.py: DomainFE                                              *)

\* columns.astype(str).str.strip() on the labels a table can carry
StripLabel(c) ==
    CASE c = " C_percent" -> "C_percent"
      [] c = "Target_Phar " -> "Target_Phar"
      [] c = "qe(mg/g) " -> "qe(mg/g)"
      [] c = " Solution_pH" -> "Solution_pH"
      [] OTHER -> c

StripLabels(df) ==
    RenameCols(df, [c \in ColSet(df) |-> StripLabel(c)])

\* for c in cs: if c in df.columns: df[c] = df[c].astype("category")
AsCategoryCols(df, cs) ==
    Frame(df.cols,
          [i \in RowIdx(df) |->
             [c \in DOMAIN df.rows[i] |->
                IF c \in SeqSet(cs) THEN AsCategory(df.rows[i][c]) ELSE df.rows[i][c]]])

\* the body of DomainFE.transform after the copy
TransformBody(num_feats, cat_feats, X, df0, pdf) ==
    LET r1 == add_pharm_features(df0, pdf)
    IN  IF r1.err # "none" THEN Raised(r1.err, X, r1.pharm)
        ELSE
          LET d2 == clean_pharm_features(r1.ret)
              d3 == add_elemental_ratios(d2)
              d4 == CoerceCols(d3, num_feats)
              d5 == AsCategoryCols(d4, cat_feats)
              use_cols == SelectSeq(num_feats \o cat_feats, LAMBDA c : HasCol(d5, c))
          IN  Returned(X, r1.pharm, SelectCols(d5, use_cols))

\* DomainFE.transform: df = X.copy(), so X stays the caller's
DomainFE_transform(num_feats, cat_feats, X, pdf) ==
    TransformBody(num_feats, cat_feats, X, StripLabels(X), pdf)

-----------------------------------------------------------------------------
(* The feature deriver called on bounded input tables                      *)

MaxCalls == 3

\* the features the DomainFE of this specification declares
fe_num_feats == <<"Solution_pH", "C_molar", "H_C_molar", "O_C_molar", "N_C_molar",
                  "S_C_molar", "E", "S", "A", "B", "V">>

fe_cat_feats == <<"Activation_Atmosphere">>

RawCols == <<"Target_Phar", "Activation_Atmosphere", "Solution_pH", "C_percent",
             "H_percent", "O_percent", "N_percent", "S_percent">>

\* column layouts of the input tables: the raw columns; one of them absent;
\* a table that already carries a column E; a label with incidental padding
Layouts ==
    { RawCols,
      SelectSeq(RawCols, LAMBDA c : c # "C_percent"),
      SelectSeq(RawCols, LAMBDA c : c # "H_percent"),
      RawCols \o <<"E">>,
      [k \in DOMAIN RawCols |->
          IF RawCols[k] = "C_percent" THEN " C_percent" ELSE RawCols[k]] }

TargetCells ==
    { Str(<<"C","I","P">>), Str(<<" ","c","i","p"," ">>), Str(<<"X","Y","Z">>), NaN }

CarbonCells ==
    { NaN, Str(<<"a","b","c">>), Str(<<"5","0","0">>), Num(-500), Num(0), Num(743) }

HydrogenCells == { NaN, Num(-35), Num(35) }

DescriptorCells == { NaN, Str(<<"x">>), Num(5000) }

FullRow(tp, cc, hh, ee) ==
    [c \in {"Target_Phar", "Activation_Atmosphere", "Solution_pH", "C_percent",
            " C_percent", "H_percent", "O_percent", "N_percent", "S_percent", "E"} |->
        CASE c = "Target_Phar" -> tp
          [] c = "Activation_Atmosphere" -> Str(<<"N","2">>)
          [] c = "Solution_pH" -> Num(70)
          [] c \in {"C_percent", " C_percent"} -> cc
          [] c = "H_percent" -> hh
          [] c = "O_percent" -> Num(54)
          [] c = "N_percent" -> Num(25)
          [] c = "S_percent" -> Num(-25)
          [] c = "E" -> ee]

Restrict(row, cs) == [c \in {cs[k] : k \in DOMAIN cs} |-> row[c]]

FirstRows == { FullRow(tp, cc, hh, ee) :
                 tp \in TargetCells, cc \in CarbonCells, hh \in HydrogenCells,
                 ee \in DescriptorCells }

\* a second row, when the table has one
SecondRows ==
    { FullRow(Str(<<"t","c">>), Num(800), Num(10), NaN) }

InputTables ==
    { [cols |-> lay, rows |-> <<Restrict(r1, lay)>>] :
         lay \in Layouts, r1 \in FirstRows }
    \cup
    { [cols |-> lay, rows |-> <<Restrict(r1, lay), Restrict(r2, lay)>>] :
         lay \in Layouts, r1 \in FirstRows, r2 \in SecondRows }

NoCall == [call |-> "none", err |-> "none", table |-> EmptyTable]

FE_Init ==
    /\ X_in \in InputTables
    /\ pharm_df = pharm_df_initial
    /\ fe_out = NoCall
    /\ fe_first = NoCall
    /\ fe_between = FALSE
    /\ fe_calls = 0
    /\ EV_Idle /\ HPO_Idle /\ APP_Idle /\ TR_Idle

\* DomainFE.fit: nothing is learnt, self is returned
FE_Fit ==
    /\ fe_calls < MaxCalls
    /\ fe_calls' = fe_calls + 1
    /\ fe_out' = [call |-> "fit", err |-> "none", table |-> EmptyTable]
    /\ fe_between' = (fe_between \/ fe_first.call # "none")
    /\ UNCHANGED <<X_in, pharm_df, fe_first, ev_vars, hpo_vars, app_vars, tr_vars>>

\* DomainFE.transform(X_in)
FE_Transform ==
    /\ fe_calls < MaxCalls
    /\ LET r == DomainFE_transform(fe_num_feats, fe_cat_feats, X_in, pharm_df)
           o == [call |-> "transform", err |-> r.err, table |-> r.ret]
       IN  /\ X_in' = r.arg
           /\ pharm_df' = r.pharm
           /\ fe_out' = o
           /\ fe_first' = IF fe_first.call = "none" THEN o ELSE fe_first
    /\ fe_calls' = fe_calls + 1
    /\ UNCHANGED <<fe_between, ev_vars, hpo_vars, app_vars, tr_vars>>

\* add_elemental_ratios(X_in), called directly
FE_Ratios ==
    /\ fe_calls < MaxCalls
    /\ fe_out' = [call |-> "ratios", err |-> "none",
                  table |-> add_elemental_ratios(X_in)]
    /\ fe_calls' = fe_calls + 1
    /\ fe_between' = (fe_between \/ fe_first.call # "none")
    /\ UNCHANGED <<X_in, pharm_df, fe_first, ev_vars, hpo_vars, app_vars, tr_vars>>

FE_Next == FE_Fit \/ FE_Transform \/ FE_Ratios

SpecFE == FE_Init /\ [][FE_Next]_vars

\* the feature deriver imported but not called
FE_Idle ==
    /\ X_in = <<>> /\ pharm_df = pharm_df_initial
    /\ fe_out = <<>> /\ fe_first = <<>>
    /\ fe_between = FALSE /\ fe_calls = 0

-----------------------------------------------------------------------------
(* Properties of the feature deriver, checked under SpecFE                 *)

\* the table as the called function sees it: transform trims the labels
SeenTable == IF fe_out.call = "transform" THEN StripLabels(X_in) ELSE X_in

\* C_percent of row i is missing, non-numeric, zero or negative
BadCarbon(df, i) ==
    \/ ~HasCol(df, "C_percent")
    \/ ~IsNum(ToNumeric(df.rows[i]["C_percent"]))
    \/ ToNumeric(df.rows[i]["C_percent"]).n <= 0

FourRatios == {"H_C_molar", "O_C_molar", "N_C_molar", "S_C_molar"}

\* a ratio that is absent from the table or NaN in row i
RatioNull(df, i, r) == HasCol(df, r) => IsNull(df.rows[i][r])

KnownCode(code) == \E j \in DOMAIN pharm_data : pharm_data[j][1] = code

RefValue(code, c) ==
    LET j == CHOOSE k \in DOMAIN pharm_data : pharm_data[k][1] = code
        pos == CHOOSE k \in DOMAIN map_cols : map_cols[k] = c
    IN  Num(pharm_data[j][pos + 1])

\* what the claim expects of descriptor c in row i: the table's value for a
\* known code, null otherwise
Expected(i, c) ==
    LET code == StrUpper(StrStrip(AsStr(X_in.rows[i]["Target_Phar"])))
    IN  IF KnownCode(code) THEN RefValue(code, c) ELSE NaN

Descriptors == {"E", "S", "A", "B", "V"}

ComputedNegative(df, i, r) ==
    /\ HasCol(df, "C_percent")
    /\ MaskC([df.rows[i] EXCEPT !["C_percent"] = ToNumeric(@)])
    /\ r \in FourRatios
    /\ HasCol(df, RatioSource[r][1])
    /\ IsNegative(ToNumeric(df.rows[i][RatioSource[r][1]]))

\* C19 as stated: after add_elemental_ratios no C_molar, H_C_molar,
\* O_C_molar, N_C_molar or S_C_molar is negative, and a ratio computed as
\* negative is null
C19_NegativeRatiosBecomeNull ==
    fe_out.call = "ratios" =>
        \A i \in RowIdx(fe_out.table) : \A r \in SeqSet(RatioCols) :
           HasCol(fe_out.table, r) =>
              /\ ~IsNegative(fe_out.table.rows[i][r])
              /\ ComputedNegative(X_in, i, r) => IsNull(fe_out.table.rows[i][r])

\* S_C_molar computed from S_percent = -2.5 on a row with carbon: it is 0
C19_Witness ==
    /\ fe_out.call = "ratios"
    /\ ComputedNegative(X_in, 1, "S_C_molar")
    /\ fe_out.table.rows[1]["S_C_molar"] = Num(0)


Declared == fe_num_feats \o fe_cat_feats

\* a declared feature the chain can supply from an input with these trimmed
\* labels: a column of the input, a descriptor, C_molar when there is a
\* C_percent, or a ratio when there are C_percent and its own percentage
Supplied(c, labels) ==
    \/ c \in labels
    \/ c \in Descriptors
    \/ c = "C_molar" /\ "C_percent" \in labels
    \/ c \in FourRatios /\ {"C_percent", RatioSource[c][1]} \subseteq labels

\* C23 as stated: for every input table that transform returns on, the
\* output columns are exactly the declared numeric features followed by the
\* declared categorical features
C23_OutputIsExactlyDeclared ==
    (fe_out.call = "transform" /\ fe_out.err = "none") =>
        fe_out.table.cols = Declared

\* C23: the output columns of transform are the declared numeric features
\* followed by the declared categorical features, in declared order, less
\* those the input neither carries nor lets the chain derive; no undeclared
\* column is kept
C23_OutputIsDeclaredAndSupplied ==
    (fe_out.call = "transform" /\ fe_out.err = "none") =>
        /\ fe_out.table.cols =
              SelectSeq(Declared, LAMBDA c : Supplied(c, ColSet(StripLabels(X_in))))
        /\ \A i \in RowIdx(fe_out.table) :
              DOMAIN fe_out.table.rows[i] = SeqSet(fe_out.table.cols)

\* an input without H_percent but with a column E: the output has every
\* declared feature but H_C_molar, in declared order
C23_Witness ==
    /\ fe_out.call = "transform"
    /\ fe_out.err = "none"
    /\ ~HasCol(X_in, "H_percent")
    /\ HasCol(X_in, "C_percent")
    /\ ~HasCol(fe_out.table, "H_C_molar")
    /\ ~HasCol(fe_out.table, "Target_Phar")
    /\ fe_out.table.cols =
          <<"Solution_pH", "C_molar", "O_C_molar", "N_C_molar", "S_C_molar",
            "E", "S", "A", "B", "V", "Activation_Atmosphere">>

-----------------------------------------------------------------------------
(* evaluation.py: evaluate_and_plot and export_oof_with_pharma.  A         *)
(* candidate is [name, pipe, cv_rmse, cv_r2, test_r2]: its pipeline (0 for *)
(* None) and what cross_validate and the test-set scoring measure for it,  *)
(* scores in 1/100 and NaN when a fold's fit failed.                       *)

\* cv_splits: int = 5
cv_splits == 5

\* plt.subplots(2, 3): zip(axes, models) stops after six candidates
NumAxes == 6

Min2(a, b) == IF a < b THEN a ELSE b

\* KFold.split: the first n % k folds hold n \div k + 1 rows
FoldSize(n, f) == (n \div cv_splits) + (IF f <= n % cv_splits THEN 1 ELSE 0)

FoldStart(n, f) == (f - 1) * (n \div cv_splits) + Min2(f - 1, n % cv_splits)

\* the validation rows of fold f: a slice of the shuffled indices
TestFold(n, perm, f) ==
    {perm[j] : j \in (FoldStart(n, f) + 1) .. (FoldStart(n, f) + FoldSize(n, f))}

TrainFold_all(n, perm, f) == 1 .. n

\* the rows the model of fold f is fitted on
TrainFold(n, perm, f) == (1 .. n) \ TestFold(n, perm, f)

KFoldShuffle_advancing(n, perm, call) ==
    IF call = 0 THEN perm ELSE [i \in 1 .. n |-> perm[n + 1 - i]]

\* KFold(n_splits, shuffle=True, random_state=<int>).split: every call seeds
\* a new generator with the integer, so the shuffle is perm whichever call
\* it is (call k for the cross_validate of candidate k, 0 for the OOF run)
KFoldShuffle(n, perm, call) == perm

\* the validation fold each row falls in under a shuffle
FoldOf(n, perm) ==
    [i \in 1 .. n |-> CHOOSE f \in 1 .. cv_splits : i \in TestFold(n, perm, f)]

\* cross_val_predict: per fold, a clone fitted on the training rows predicts
\* the validation rows (in index order); the predictions are concatenated
\* and must cover every row once
cross_val_predict(pipe, n, perm) ==
    LET one(f) == LET hit(i) == i \in TestFold(n, perm, f)
                  IN  [k \in DOMAIN SelectSeq([i \in 1 .. n |-> i], hit) |->
                         [row |-> SelectSeq([i \in 1 .. n |-> i], hit)[k],
                          fold |-> f, pipe |-> pipe,
                          fit_on |-> TrainFold(n, perm, f)]]
        preds  == Flatten([f \in 1 .. cv_splits |-> one(f)])
    IN  IF Len(preds) = n /\ {preds[j].row : j \in DOMAIN preds} = 1 .. n
        THEN [err |-> "none", preds |-> preds]
        ELSE [err |-> "ValueError", preds |-> <<>>]

\* export_oof_with_pharma: the OOF predictions, row by row, then the error
\* figure (fig.savefig) and the OOF sheets (pd.ExcelWriter), neither inside a
\* try: a write in fails raises out of the function
export_oof_with_pharma(best_pipe, n, perm, fails) ==
    LET r == cross_val_predict(best_pipe, n, perm)
    IN  IF r.err # "none" THEN r
        ELSE IF "oof_figure" \in fails \/ "oof_sheets" \in fails
        THEN [err |-> "OSError", preds |-> <<>>]
        ELSE [err |-> "none",
              preds |-> [i \in 1 .. n |->
                           r.preds[CHOOSE j \in DOMAIN r.preds : r.preds[j].row = i]]]

\* one sort key: a NaN comes last in either direction
KeyBefore(a, b, ascending) ==
    /\ IsNum(a)
    /\ IsNull(b) \/ (IF ascending THEN a.n < b.n ELSE a.n > b.n)

RankBefore_r2up(a, b) ==
    \/ KeyBefore(a.cv_rmse, b.cv_rmse, TRUE)
    \/ /\ a.cv_rmse = b.cv_rmse
       /\ \/ KeyBefore(a.cv_r2, b.cv_r2, TRUE)
          \/ a.cv_r2 = b.cv_r2 /\ KeyBefore(a.test_r2, b.test_r2, FALSE)

\* sort_values(["cv_rmse","cv_r2","test_r2"], ascending=[True,False,False]):
\* row a goes before row b
RankBefore(a, b) ==
    \/ KeyBefore(a.cv_rmse, b.cv_rmse, TRUE)
    \/ /\ a.cv_rmse = b.cv_rmse
       /\ \/ KeyBefore(a.cv_r2, b.cv_r2, FALSE)
          \/ a.cv_r2 = b.cv_r2 /\ KeyBefore(a.test_r2, b.test_r2, FALSE)

\* x put after the rows that are not behind it: rows that tie keep their
\* order (the sort is a stable lexsort)
RankInsert(sorted, x) ==
    LET ahead == {k \in DOMAIN sorted : ~RankBefore(x, sorted[k])}
        at == IF ahead = {} THEN 0 ELSE CHOOSE k \in ahead : \A l \in ahead : l <= k
    IN  SubSeq(sorted, 1, at) \o <<x>> \o SubSeq(sorted, at + 1, Len(sorted))

RECURSIVE RankSort(_)
RankSort(rows) ==
    IF rows = <<>> THEN <<>>
    ELSE RankInsert(RankSort(SubSeq(rows, 1, Len(rows) - 1)), rows[Len(rows)])

\* the row results.append(...) keeps of a candidate
ResultRow(m) ==
    [model |-> m.name, cv_rmse |-> m.cv_rmse, cv_r2 |-> m.cv_r2, test_r2 |-> m.test_r2]

\* fold_store[name]: the pipeline stored last under that name
StoredPipe(evaluated, name) ==
    evaluated[CHOOSE k \in DOMAIN evaluated :
                 /\ evaluated[k].name = name
                 /\ \A l \in DOMAIN evaluated : evaluated[l].name = name => l <= k].pipe

EvalRaised(e) ==
    [status |-> "raised", err |-> e, results_df |-> <<>>, results_sorted |-> <<>>,
     best_name |-> "None", best_pipe |-> 0, best_fold_df |-> <<>>, oof |-> <<>>,
     cv_folds |-> <<>>, warned |-> {}]

EmptyResult_raises == EvalRaised("IndexError")

\* the return for no result row: the empty table twice and None for
\* best_name, best_pipe and best_fold_df (None is "None", 0 and <<>>)
EmptyResult ==
    [status |-> "returned", err |-> "none", results_df |-> <<>>,
     results_sorted |-> <<>>, best_name |-> "None", best_pipe |-> 0,
     best_fold_df |-> <<>>, oof |-> <<>>, cv_folds |-> <<>>, warned |-> {}]

\* evaluate_and_plot; fails holds the diagnostic writes that fail.  The loop
\* runs cross_validate on every candidate with a pipeline (cv_folds keeps
\* the fold assignment each of these runs used), plt.savefig
\* writes the panel figure, and only with a result row come the OOF export
\* and the summary sheets, the latter alone inside try/except
evaluate_and_plot(models, n, perm, fails) ==
    LET seen      == SubSeq(models, 1, Min2(NumAxes, Len(models)))
        evaluated == SelectSeq(seen, LAMBDA m : m.pipe # 0)
        results   == [k \in DOMAIN evaluated |-> ResultRow(evaluated[k])]
        sorted    == RankSort(results)
        best_name == sorted[1].model
        best_pipe == StoredPipe(evaluated, best_name)
        oof       == export_oof_with_pharma(best_pipe, n, KFoldShuffle(n, perm, 0),
                                            fails)
    IN  IF evaluated # <<>> /\ n < cv_splits THEN EvalRaised("ValueError")
        ELSE IF "figure" \in fails THEN EvalRaised("OSError")
        ELSE IF evaluated = <<>> THEN EmptyResult
        ELSE IF oof.err # "none" THEN EvalRaised(oof.err)
        ELSE [status |-> "returned", err |-> "none", results_df |-> results,
              results_sorted |-> sorted, best_name |-> best_name,
              best_pipe |-> best_pipe,
              best_fold_df |-> [f \in 1 .. cv_splits |->
                                  [Fold |-> f, n_val |-> FoldSize(n, f)]],
              oof |-> oof.preds,
              cv_folds |-> [k \in DOMAIN evaluated |->
                              FoldOf(n, KFoldShuffle(n, perm, k))],
              warned |-> fails \cap {"summary"}]

-----------------------------------------------------------------------------
(* The evaluation harness called on bounded candidate lists                *)

MaxPool == 3

MaxRows == 6

\* the names build_model_pool gives its six candidates, in pool order, and
\* the names of the ones it skips
PoolNames == <<"CatBoost", "LightGBM-GBDT", "XGBoost-GBTree", "HistGBR", "EBM",
               "LightGBM-DART">>

SkippedNames == <<"CatBoost (skipped)", "LightGBM-GBDT (skipped)",
                  "XGBoost-GBTree (skipped)", "HistGBR (skipped)", "EBM (skipped)",
                  "LightGBM-DART (skipped)">>

\* what cross_validate can measure for a candidate: mean RMSE and mean R2,
\* both NaN when a fold failed to fit
CvOutcomes ==
    {[rmse |-> NaN, r2 |-> NaN]} \cup
    {[rmse |-> Num(r), r2 |-> Num(q)] : r \in {120, 150}, q \in {70, 85}}

TestOutcomes == {Num(60), Num(80)}

\* the candidates that can stand at place k of the list
CandidatesAt(k) ==
    {[name |-> SkippedNames[k], pipe |-> 0, cv_rmse |-> NaN, cv_r2 |-> NaN,
      test_r2 |-> NaN]} \cup
    {[name |-> PoolNames[k], pipe |-> k, cv_rmse |-> c.rmse, cv_r2 |-> c.r2,
      test_r2 |-> t] : c \in CvOutcomes, t \in TestOutcomes}

RECURSIVE Pools(_)
Pools(len) ==
    IF len = 0 THEN {<<>>}
    ELSE {Append(p, c) : p \in Pools(len - 1), c \in CandidatesAt(len)}

Identity(n) == [i \in 1 .. n |-> i]

\* candidate lists of every length, over too few and just enough rows
RankInputs ==
    {[models |-> p, n |-> n, perm |-> Identity(n), fails |-> {}] :
        p \in UNION {Pools(len) : len \in 0 .. MaxPool}, n \in {cv_splits - 1, cv_splits}}

\* one candidate over every shuffle KFold(shuffle=True) can draw
ShuffleInputs ==
    UNION {{[models |-> <<[name |-> PoolNames[1], pipe |-> 1, cv_rmse |-> Num(120),
                           cv_r2 |-> Num(85), test_r2 |-> Num(80)]>>,
             n |-> n, perm |-> p, fails |-> {}] : p \in Permutations(1 .. n)} :
           n \in cv_splits .. MaxRows}

\* the diagnostic writes of one call: the panel figure, the OOF error figure,
\* the OOF sheets, the summary sheets
Writes == {"figure", "oof_figure", "oof_sheets", "summary"}

\* a pool without a pipeline and a pool with two, each with any of the
\* writes failing
WriteInputs ==
    {[models |-> p, n |-> cv_splits, perm |-> Identity(cv_splits), fails |-> w] :
        p \in {<<[name |-> SkippedNames[1], pipe |-> 0, cv_rmse |-> NaN,
                  cv_r2 |-> NaN, test_r2 |-> NaN]>>,
               <<[name |-> PoolNames[1], pipe |-> 1, cv_rmse |-> Num(150),
                  cv_r2 |-> Num(70), test_r2 |-> Num(60)],
                 [name |-> PoolNames[2], pipe |-> 2, cv_rmse |-> Num(120),
                  cv_r2 |-> Num(85), test_r2 |-> Num(80)]>>},
        w \in SUBSET Writes}

NotEvaluated ==
    [status |-> "none", err |-> "none", results_df |-> <<>>, results_sorted |-> <<>>,
     best_name |-> "None", best_pipe |-> 0, best_fold_df |-> <<>>, oof |-> <<>>,
     cv_folds |-> <<>>, warned |-> {}]

EV_Init ==
    /\ ev_in \in RankInputs \cup ShuffleInputs \cup WriteInputs
    /\ ev_out = NotEvaluated
    /\ FE_Idle /\ HPO_Idle /\ APP_Idle /\ TR_Idle

\* the call of evaluate_and_plot
EV_Evaluate ==
    /\ ev_out.status = "none"
    /\ ev_out' = evaluate_and_plot(ev_in.models, ev_in.n, ev_in.perm, ev_in.fails)
    /\ UNCHANGED <<ev_in, fe_vars, hpo_vars, app_vars, tr_vars>>

EV_Next == EV_Evaluate

SpecEval == EV_Init /\ [][EV_Next]_vars

-----------------------------------------------------------------------------
(* Properties of the evaluation harness, checked under SpecEval            *)

\* the candidates the loop evaluated
EvaluatedSet == {ev_in.models[k] : k \in {j \in DOMAIN ev_in.models : ev_in.models[j].pipe # 0}}

\* row a may stand before row b: smaller CV RMSE, or the same and a larger
\* CV R2, or both the same and a test R2 that is not smaller; a missing
\* score stands behind every number
InRankOrder(a, b) ==
    \/ IsNum(a.cv_rmse) /\ IsNum(b.cv_rmse) /\ a.cv_rmse.n < b.cv_rmse.n
    \/ IsNum(a.cv_rmse) /\ IsNull(b.cv_rmse)
    \/ /\ a.cv_rmse = b.cv_rmse
       /\ \/ IsNum(a.cv_r2) /\ IsNum(b.cv_r2) /\ a.cv_r2.n > b.cv_r2.n
          \/ IsNum(a.cv_r2) /\ IsNull(b.cv_r2)
          \/ a.cv_r2 = b.cv_r2 /\ a.test_r2.n >= b.test_r2.n

C18_WritesAreBestEffort ==
    (ev_out.status # "none" /\ EvaluatedSet # {} /\ ev_in.n >= cv_splits) =>
       /\ ev_out.status = "returned"
       /\ ev_out.warned = ev_in.fails
       /\ Len(ev_out.results_sorted) = Cardinality(EvaluatedSet)
       /\ ev_out.best_name = ev_out.results_sorted[1].model

\* two candidates evaluated and only the OOF sheets could not be written:
\* the call raised, with no ranking and no winner
C18_Witness ==
    /\ ev_out.status = "raised"
    /\ ev_out.err = "OSError"
    /\ Len(ev_in.models) = 2
    /\ ev_in.fails = {"oof_sheets"}
    /\ ev_out.results_sorted = <<>>

-----------------------------------------------------------------------------
(* tunning.py: get_param_distributions and run_hpo_top2.  What a           *)
(* randomized search measures for a candidate is the sequence of mean CV   *)
(* R2 (in 1/100) of the n_iter configurations it samples.                  *)

\* model_name.startswith("LightGBM"), over the names a candidate can carry
StartsWithLightGBM(name) ==
    name \in {"LightGBM-GBDT", "LightGBM-DART", "LightGBM-GBDT (skipped)",
              "LightGBM-DART (skipped)"}

\* get_param_distributions: the keys of the search space, {} for a name
\* without a branch
get_param_distributions(name) ==
    IF name = "HistGBR"
    THEN {"reg__learning_rate", "reg__max_iter", "reg__max_depth",
          "reg__l2_regularization", "reg__min_samples_leaf", "reg__max_leaf_nodes"}
    ELSE IF StartsWithLightGBM(name)
    THEN {"reg__num_leaves", "reg__learning_rate", "reg__n_estimators",
          "reg__boosting_type"}
    ELSE IF name = "XGBoost-GBTree"
    THEN {"reg__n_estimators", "reg__max_depth", "reg__learning_rate",
          "reg__subsample", "reg__colsample_bytree", "reg__reg_lambda", "reg__booster"}
    ELSE IF name = "CatBoost"
    THEN {"reg__depth", "reg__learning_rate", "reg__n_estimators"}
    ELSE IF name = "EBM"
    THEN {"reg__learning_rate", "reg__max_leaves", "reg__interactions", "reg__max_bins"}
    ELSE {}

\* name2pipe.get(cand): the pipeline listed last under the name, 0 for none
Name2Pipe(models, cand) ==
    LET at == {k \in DOMAIN models : models[k].name = cand /\ models[k].pipe # 0}
    IN  IF at = {} THEN 0
        ELSE models[CHOOSE k \in at : \A l \in at : l <= k].pipe

BestIndex_last(scores) == Len(scores)

\* RandomizedSearchCV.best_index_: the first configuration of the best score
BestIndex(scores) ==
    CHOOSE k \in DOMAIN scores :
       /\ \A l \in DOMAIN scores : scores[l] <= scores[k]
       /\ \A l \in DOMAIN scores : scores[l] = scores[k] => k <= l

\* the rows of res_sorted with a pipeline in the pool and a search space
Tunable(models, ranked) ==
    SelectSeq(ranked, LAMBDA r : /\ Name2Pipe(models, r.model) # 0
                                 /\ get_param_distributions(r.model) # {})

TopTwo_tunable(models, ranked) ==
    SubSeq(Tunable(models, ranked), 1, Min2(2, Len(Tunable(models, ranked))))

\* top2 = res_sorted.head(2)["model"]
TopTwo(models, ranked) == SubSeq(ranked, 1, Min2(2, Len(ranked)))

\* best_pipe = None
NoPipe == [base |-> 0, params |-> 0]

HpoStep_last_wins(acc, models, search, cand) ==
    IF Name2Pipe(models, cand) = 0 \/ get_param_distributions(cand) = {}
    THEN [acc EXCEPT !.hp_results =
             Append(@, [model |-> cand, cv_r2 |-> NaN, best_params |-> 0])]
    ELSE
      LET k     == BestIndex(search[cand])
          score == search[cand][k]
          seen  == [acc EXCEPT !.hp_results =
                      Append(@, [model |-> cand, cv_r2 |-> Num(score),
                                 best_params |-> k])]
      IN  IF acc.best_score.t = "inf" \/ score >= acc.best_score.n
          THEN [seen EXCEPT !.best_name = cand,
                            !.best_pipe = [base |-> Name2Pipe(models, cand), params |-> k],
                            !.best_score = Num(score),
                            !.best_params = k]
          ELSE seen

HpoStep_no_log(acc, models, search, cand) ==
    IF Name2Pipe(models, cand) = 0 \/ get_param_distributions(cand) = {}
    THEN acc
    ELSE
      LET k     == BestIndex(search[cand])
          score == search[cand][k]
          seen  == [acc EXCEPT !.hp_results =
                      Append(@, [model |-> cand, cv_r2 |-> Num(score),
                                 best_params |-> k])]
      IN  IF acc.best_score.t = "inf" \/ score > acc.best_score.n
          THEN [seen EXCEPT !.best_name = cand,
                            !.best_pipe = [base |-> Name2Pipe(models, cand), params |-> k],
                            !.best_score = Num(score),
                            !.best_params = k]
          ELSE seen

\* one turn of the loop over top2
HpoStep(acc, models, search, cand) ==
    IF Name2Pipe(models, cand) = 0 \/ get_param_distributions(cand) = {}
    THEN [acc EXCEPT !.hp_results =
             Append(@, [model |-> cand, cv_r2 |-> NaN, best_params |-> 0])]
    ELSE
      LET k     == BestIndex(search[cand])
          score == search[cand][k]
          seen  == [acc EXCEPT !.hp_results =
                      Append(@, [model |-> cand, cv_r2 |-> Num(score),
                                 best_params |-> k])]
      IN  IF acc.best_score.t = "inf" \/ score > acc.best_score.n
          THEN [seen EXCEPT !.best_name = cand,
                            !.best_pipe = [base |-> Name2Pipe(models, cand), params |-> k],
                            !.best_score = Num(score),
                            !.best_params = k]
          ELSE seen

RECURSIVE HpoLoop(_, _, _, _)
HpoLoop(acc, models, search, cands) ==
    IF cands = <<>> THEN acc
    ELSE HpoLoop(HpoStep(acc, models, search, cands[1].model), models, search,
                 Tail(cands))

\* before the loop: best_name, best_pipe, best_score = None, None, -inf
HpoStart ==
    [status |-> "none", err |-> "none", best_name |-> "None", best_pipe |-> NoPipe,
     best_score |-> Inf(-1), hp_results |-> <<>>, best_params |-> 0]

run_hpo_top2_no_raise(models, ranked, search) ==
    [HpoLoop(HpoStart, models, search, TopTwo(models, ranked)) EXCEPT !.status = "returned"]

\* run_hpo_top2
run_hpo_top2(models, ranked, search) ==
    LET acc == HpoLoop(HpoStart, models, search, TopTwo(models, ranked))
    IN  IF ranked = <<>> \/ acc.best_pipe = NoPipe
        THEN [HpoStart EXCEPT !.status = "raised", !.err = "RuntimeError"]
        ELSE [acc EXCEPT !.status = "returned"]

-----------------------------------------------------------------------------
(* The tuner called on bounded rankings and search outcomes                *)

MaxIter == 2

\* a tuned kind, a kind found by its prefix, and a kind the tuner has no
\* search space for
HpoNames == <<"HistGBR", "LightGBM-DART", "RandomForest">>

\* the pool: each kind with its pipeline, or skipped
HpoPools ==
    {[k \in DOMAIN HpoNames |-> [name |-> HpoNames[k], pipe |-> IF k \in on THEN k ELSE 0]] :
        on \in SUBSET (DOMAIN HpoNames)}

\* rankings: the kinds in any order, any number of them, each row with the
\* CV R2 measured before tuning
HpoRankings ==
    {<<>>} \cup
    UNION {{[k \in 1 .. len |-> [model |-> HpoNames[p[k]],
                                  cv_r2 |-> IF k = 1 THEN Num(85) ELSE Num(70)]] :
               p \in Permutations(DOMAIN HpoNames)} : len \in DOMAIN HpoNames}

\* what the searches measure: n_iter scores for each kind
HpoSearches ==
    UNION {[{HpoNames[k] : k \in DOMAIN HpoNames} -> [1 .. n_iter -> {60, 90}]] :
              n_iter \in 1 .. MaxIter}

HPO_Init ==
    /\ hpo_in \in [models : HpoPools, ranked : HpoRankings, search : HpoSearches]
    /\ hpo_out = HpoStart
    /\ FE_Idle /\ EV_Idle /\ APP_Idle /\ TR_Idle

\* the call of run_hpo_top2
HPO_Run ==
    /\ hpo_out.status = "none"
    /\ hpo_out' = run_hpo_top2(hpo_in.models, hpo_in.ranked, hpo_in.search)
    /\ UNCHANGED <<hpo_in, fe_vars, ev_vars, app_vars, tr_vars>>

HPO_Next == HPO_Run

SpecHPO == HPO_Init /\ [][HPO_Next]_vars

-----------------------------------------------------------------------------
(* Properties of the tuner                                                 *)

HpoDone == hpo_out.status # "none"

Eligible(name) ==
    /\ Name2Pipe(hpo_in.models, name) # 0
    /\ get_param_distributions(name) # {}

\* the first two rows of the ranking
HeadRows == SubSeq(hpo_in.ranked, 1, Min2(2, Len(hpo_in.ranked)))

\* two ranked candidates, each in the pool and with a search space
TwoEligibleRanked ==
    /\ Len(hpo_in.ranked) = 2
    /\ \A k \in 1 .. 2 : Eligible(hpo_in.ranked[k].model)

MaxOf(S) == CHOOSE x \in S : \A y \in S : y <= x

PreTuningBest == MaxOf({hpo_in.ranked[k].cv_r2.n : k \in 1 .. 2})

\* the best mean CV score the search of one candidate sampled
SearchBest(name) == MaxOf({hpo_in.search[name][k] : k \in DOMAIN hpo_in.search[name]})

\* C9 as stated: with two ranked candidates that both have a search space,
\* the winner's cross-validated R2 is at least the better of the two
\* pre-tuning cross-validated R2
C9_WinnerNotBelowPreTuning ==
    (HpoDone /\ TwoEligibleRanked) =>
        /\ hpo_out.status = "returned"
        /\ hpo_out.best_score.n >= PreTuningBest

\* C9 amended: with two ranked candidates that both have a search space,
\* run_hpo_top2 returns a single winner whose score is the larger of the two
\* candidates' best sampled search scores, the higher-ranked one winning a
\* tie; the pre-tuning scores play no part
C9_WinnerIsBestSampled ==
    (HpoDone /\ TwoEligibleRanked) =>
        LET first  == hpo_in.ranked[1].model
            second == hpo_in.ranked[2].model
            winner == IF SearchBest(second) > SearchBest(first) THEN second ELSE first
        IN  /\ hpo_out.status = "returned"
            /\ hpo_out.best_name = winner
            /\ hpo_out.best_score = Num(SearchBest(winner))
            /\ hpo_out.best_pipe.base = Name2Pipe(hpo_in.models, winner)
            /\ hpo_in.search[winner][hpo_out.best_params] = SearchBest(winner)
            /\ hpo_out.best_pipe.params = hpo_out.best_params

\* two eligible candidates tuned, and the winner below the pre-tuning best
C9_Witness ==
    /\ HpoDone /\ TwoEligibleRanked
    /\ hpo_out.status = "returned"
    /\ Len(hpo_in.search[hpo_out.best_name]) > 1
    /\ hpo_out.best_score.n < PreTuningBest

\* the candidates a search was run for, in order
TunedNames ==
    [k \in DOMAIN SelectSeq(hpo_out.hp_results, LAMBDA r : ~IsNull(r.cv_r2)) |->
        SelectSeq(hpo_out.hp_results, LAMBDA r : ~IsNull(r.cv_r2))[k].model]

EligibleRanked == Tunable(hpo_in.models, hpo_in.ranked)

\* C10 as stated: the two highest-ranked eligible candidates are tuned, a
\* lower-ranked eligible one taking the place of an ineligible one of the
\* first two
C10_NextEligibleTakesPlace ==
    (HpoDone /\ Len(EligibleRanked) >= 2) =>
        /\ hpo_out.status = "returned"
        /\ TunedNames = <<EligibleRanked[1].model, EligibleRanked[2].model>>

\* C10 amended: run_hpo_top2 looks at the first two ranked rows only; one of
\* them that is absent from the pool or has no search space is recorded with
\* a null score and null parameters and nothing is tuned in its place; when
\* none of the first two is eligible the call raises RuntimeError
C10_OnlyFirstTwoRows ==
    HpoDone =>
        IF \E k \in DOMAIN HeadRows : Eligible(HeadRows[k].model)
        THEN /\ hpo_out.status = "returned"
             /\ Len(hpo_out.hp_results) = Len(HeadRows)
             /\ \A k \in DOMAIN HeadRows :
                   /\ hpo_out.hp_results[k].model = HeadRows[k].model
                   /\ IF Eligible(HeadRows[k].model)
                      THEN hpo_out.hp_results[k].cv_r2 = Num(SearchBest(HeadRows[k].model))
                      ELSE /\ hpo_out.hp_results[k].cv_r2 = NaN
                           /\ hpo_out.hp_results[k].best_params = 0
             /\ Eligible(hpo_out.best_name)
        ELSE /\ hpo_out.status = "raised"
             /\ hpo_out.err = "RuntimeError"

\* two eligible candidates are ranked, one of them third, and only one
\* candidate is tuned
C10_Witness ==
    /\ hpo_out.status = "returned"
    /\ Len(hpo_in.ranked) = 3
    /\ Len(EligibleRanked) = 2
    /\ Eligible(hpo_in.ranked[3].model)
    /\ Len(TunedNames) = 1
    /\ \E k \in 1 .. 2 : hpo_out.hp_results[k].cv_r2 = NaN

\* the rows of the head of the ranking that a search is run for
TunedRows == {k \in DOMAIN HeadRows : Eligible(HeadRows[k].model)}

\* the first configuration of a candidate's search with its best score
FirstBest(name) ==
    CHOOSE k \in DOMAIN hpo_in.search[name] :
       /\ hpo_in.search[name][k] = SearchBest(name)
       /\ \A l \in 1 .. k - 1 : hpo_in.search[name][l] < SearchBest(name)

\* C11: the returned pipeline is the refit best estimator of the tuned
\* candidate with the highest best CV R2, the one tuned first when the best
\* scores are equal, and the returned name, score and parameters are those
\* of that candidate
C11_WinnerIsBestTunedFirstOnTie ==
    hpo_out.status = "returned" =>
        \E w \in TunedRows :
           /\ \A l \in TunedRows :
                 \/ SearchBest(HeadRows[l].model) < SearchBest(HeadRows[w].model)
                 \/ /\ SearchBest(HeadRows[l].model) = SearchBest(HeadRows[w].model)
                    /\ w <= l
           /\ hpo_out.best_name = HeadRows[w].model
           /\ hpo_out.best_score = Num(SearchBest(HeadRows[w].model))
           /\ hpo_out.best_params = FirstBest(HeadRows[w].model)
           /\ hpo_out.best_pipe = [base   |-> Name2Pipe(hpo_in.models, HeadRows[w].model),
                                   params |-> FirstBest(HeadRows[w].model)]

\* two candidates were tuned to the same best score, reached by the second
\* sampled configuration, and the higher-ranked one is returned
C11_Witness ==
    /\ hpo_out.status = "returned"
    /\ TunedRows = {1, 2}
    /\ SearchBest(HeadRows[1].model) = SearchBest(HeadRows[2].model)
    /\ hpo_out.best_name = HeadRows[1].model
    /\ hpo_out.best_params = 2

\* a row of the head of the ranking that is not in the pool or has no
\* search space
Skipped(k) == k \in DOMAIN HeadRows /\ ~Eligible(HeadRows[k].model)

\* C12 as stated: a top-2 candidate without search space or pipeline is
\* logged with null score and parameters, the call does not raise, and the
\* candidate is not the winner
C12_SkippedNeverRaises ==
    HpoDone =>
        \A k \in DOMAIN HeadRows : Skipped(k) =>
           /\ hpo_out.status = "returned"
           /\ hpo_out.hp_results[k] = [model |-> HeadRows[k].model, cv_r2 |-> NaN,
                                       best_params |-> 0]
           /\ hpo_out.best_name # HeadRows[k].model

\* C12 amended: such a candidate is logged with null score and parameters
\* and is not the winner whenever the other top-2 candidate is tuned; when
\* no top-2 candidate is tuned the call raises RuntimeError after the loop
C12_SkippedLoggedUnlessNoneTuned ==
    HpoDone =>
        \A k \in DOMAIN HeadRows : Skipped(k) =>
           IF TunedRows # {}
           THEN /\ hpo_out.status = "returned"
                /\ hpo_out.hp_results[k] = [model |-> HeadRows[k].model, cv_r2 |-> NaN,
                                            best_params |-> 0]
                /\ hpo_out.best_name # HeadRows[k].model
           ELSE /\ hpo_out.status = "raised"
                /\ hpo_out.err = "RuntimeError"

\* the first-ranked candidate was skipped and logged, the second one won
C12_Witness ==
    /\ hpo_out.status = "returned"
    /\ Skipped(1)
    /\ hpo_out.hp_results[1].cv_r2 = NaN
    /\ Len(hpo_out.hp_results) = 2
    /\ hpo_out.best_name = HeadRows[2].model


\* C30: whenever run_hpo_top2 returns, the winner's name and pipeline are
\* not None and the name is one of the first two names of the ranking; the
\* tuning log has one entry per top-2 candidate, in rank order; and the call
\* raises when the ranking is empty or no top-2 candidate could be tuned
C30_ReturnsWinnerAmongTopTwoOrRaises ==
    /\ hpo_out.status = "returned" =>
          /\ hpo_out.best_name # "None"
          /\ hpo_out.best_pipe # NoPipe
          /\ hpo_out.best_pipe.base # 0
          /\ \E k \in DOMAIN HeadRows : HeadRows[k].model = hpo_out.best_name
          /\ Len(hpo_out.hp_results) = Len(HeadRows)
          /\ \A k \in DOMAIN HeadRows : hpo_out.hp_results[k].model = HeadRows[k].model
    /\ (HpoDone /\ \A k \in DOMAIN HeadRows : ~Eligible(HeadRows[k].model)) =>
          /\ hpo_out.status = "raised"
          /\ hpo_out.err = "RuntimeError"

\* three ranked candidates: the first has no search space, the second was
\* tuned and returned as the winner, the third was never looked at
C30_Witness ==
    /\ hpo_out.status = "returned"
    /\ Len(hpo_in.ranked) = 3
    /\ hpo_in.ranked[1].model = "RandomForest"
    /\ hpo_out.best_name = hpo_in.ranked[2].model
    /\ Len(hpo_out.hp_results) = 2
    /\ hpo_out.hp_results[1].cv_r2 = NaN
    /\ Eligible(hpo_in.ranked[3].model)

-----------------------------------------------------------------------------
(* aqua_ml_app.py: the submit handler of the single-record form.  Numbers  *)
(* are in tenths.  The loaded pipeline is a fitted artefact: a prediction  *)
(* is a fixed function of the record it is given, and may raise.           *)

\* the keys of row, in order: synthesis, adsorbent, process_, categorical,
\* target_phar
FormFields ==
    <<"Agent/Sample(g/g)", "Soaking_Time(min)", "Soaking_Temp(K)",
      "Activation_Time(min)", "Activation_Temp(K)", "Activation_Heating_Rate (K/min)",
      "BET_Surface_Area(m2/g)", "Total_Pore_Volume(cm3/g)", "Micropore_Volume(cm3/g)",
      "Average_Pore_Diameter(nm)", "pHpzc", "C_percent", "H_percent", "O_percent",
      "N_percent", "S_percent",
      "Solution_pH", "Temperature(K)", "Initial_Concentration(mg/L)",
      "Dosage(g/L)", "Contact_Time(min)", "Agitation_speed(rpm)",
      "Activation_Atmosphere", "Target_Phar">>

\* the fields that are neither categorical nor the target
NumericFields == SeqSet(FormFields) \ {"Activation_Atmosphere", "Target_Phar"}

\* the keys of solute_params, in order
solute_params ==
    <<"APAP", "ASA", "BENZ", "CAF", "CIP", "CIT", "DCF", "FLX", "IBU", "MTZ", "NPX",
      "NOR", "OTC", "SA", "SDZ", "SMR", "SMT", "SMX", "TC", "CBZ", "PHE">>

\* the nine sensitivity sweeps, in the order the handler runs them
Sweeps ==
    <<
      [name |-> "agent_ratios", field |-> "Agent/Sample(g/g)",
       grid |->
          <<1, 2, 3, 4, 5, 6, 7, 8, 9, 10, 12, 14, 16, 18, 20,
            22, 24, 26, 28, 30, 32, 34, 36, 38, 40, 42, 44, 46,
            48, 50, 55, 60, 65, 70, 75, 80, 85, 90, 95, 100>>],
      [name |-> "soaking_times", field |-> "Soaking_Time(min)",
       grid |->
          <<300, 450, 600, 750, 900, 1050, 1200, 1350, 1500,
            1650, 1800, 1950, 2100, 2250, 2400, 2550, 2700,
            2850, 3000, 3150, 3300, 3450, 3600, 3750, 3900,
            4050, 4200, 4350, 4500, 4650, 4800, 4950, 5100,
            5250, 5400, 6000, 7200, 9000, 12000, 15000, 18000,
            20000>>],
      [name |-> "activation_times", field |-> "Activation_Time(min)",
       grid |->
          <<300, 450, 600, 750, 900, 1050, 1200, 1500, 1800,
            2100, 2400, 2700, 3000, 3300, 3600>>],
      [name |-> "activation_temps", field |-> "Activation_Temp(K)",
       grid |->
          <<5500, 5750, 6000, 6250, 6500, 6750, 7000, 7250,
            7500, 7750, 8000, 8250, 8500, 8750, 9000, 9250,
            9500, 9750, 10000, 10250, 10500, 10750, 11000,
            11250, 11500, 11750, 12000>>],
      [name |-> "concentrations", field |-> "Initial_Concentration(mg/L)",
       grid |->
          <<500, 1000, 1500, 2000, 2500, 3000, 3500, 4000, 4500,
            5000, 6000, 7000, 8000, 9000, 10000, 12000, 14000,
            16000, 18000, 20000, 22000, 24000, 26000, 28000,
            30000>>],
      [name |-> "temperatures", field |-> "Temperature(K)",
       grid |->
          <<2900, 2950, 3000, 3050, 3100, 3150, 3200, 3250,
            3300, 3350, 3400>>],
      [name |-> "ph_values", field |-> "Solution_pH",
       grid |->
          <<20, 25, 30, 35, 40, 45, 50, 55, 60, 65, 70, 75, 80,
            85, 90, 95, 100, 105, 110, 115, 120>>],
      [name |-> "dosages", field |-> "Dosage(g/L)",
       grid |->
          <<5, 10, 15, 20, 25, 30, 35, 40, 45, 50, 60, 70, 80,
            90, 100, 110, 120, 130, 140, 150, 160, 170, 180,
            190, 200>>],
      [name |-> "contact_times", field |-> "Contact_Time(min)",
       grid |->
          <<100, 200, 300, 400, 500, 600, 800, 1000, 1200, 1400,
            1600, 1800, 2000, 2200, 2400, 2600, 2800, 3000,
            3200, 3400, 3600, 3800, 4000, 4200, 4400, 4600,
            4800, 5000, 6000, 7200, 9000, 12000, 15000, 18000,
            24000, 30000, 36000, 42000, 48000, 54000, 60000>>]
    >>

\* a selected code or atmosphere, kept whole
Choice(name) == Str(<<name>>)

\* d[k] = v on a dict
DictSet(d, k, v) == [x \in DOMAIN d \cup {k} |-> IF x = k THEN v ELSE d[x]]

\* row: vals.get(k, None) for every key; the widgets of the numeric fields
\* give numbers or None, never strings
Row(vals) == [k \in SeqSet(FormFields) |-> IF k \in DOMAIN vals THEN vals[k] ELSE NaN]

\* base_params: row without Target_Phar
BaseParams(row) == [k \in DOMAIN row \ {"Target_Phar"} |-> row[k]]

\* position of a code in solute_params, 0 for none
CodeIndex(cell) ==
    IF \E k \in DOMAIN solute_params : cell = Choice(solute_params[k])
    THEN CHOOSE k \in DOMAIN solute_params : cell = Choice(solute_params[k])
    ELSE 0

\* pipe.predict on a one-record frame: raises on the records the pipeline
\* cannot take, else a value fixed by the record
Predict(pipe, rec) ==
    IF \/ rec[pipe.bad_field] = Num(pipe.bad_value)
       \/ \E c \in pipe.bad_codes : rec["Target_Phar"] = Choice(c)
    THEN [err |-> TRUE, qe |-> 0]
    ELSE [err |-> FALSE,
          qe  |-> pipe.slope * (rec["Solution_pH"].n + rec["Agent/Sample(g/g)"].n
                                + rec["Soaking_Time(min)"].n + rec["Activation_Time(min)"].n
                                + rec["Activation_Temp(K)"].n
                                + rec["Initial_Concentration(mg/L)"].n
                                + rec["Temperature(K)"].n + rec["Dosage(g/L)"].n
                                + rec["Contact_Time(min)"].n)
                  + (IF pipe.by_code THEN 10 * (CodeIndex(rec["Target_Phar"]) % 4) ELSE 0)
                  + (IF rec["Activation_Atmosphere"] = Choice("N2") THEN 5 ELSE 0)]

SweepRow_no_atmosphere(base_params, target, field, v) ==
    DictSet(DictSet(DictSet(base_params, "Target_Phar", target), field, Num(v)),
            "Activation_Atmosphere", NaN)

\* test_row = base_params.copy(); test_row["Target_Phar"] = vals["Target_Phar"];
\* test_row[field] = v
SweepRow(base_params, target, field, v) ==
    DictSet(DictSet(base_params, "Target_Phar", target), field, Num(v))

\* the points of a grid before the first one whose prediction raises
SweepResults_stop(pipe, sent, grid) ==
    LET ok == {k \in DOMAIN grid : \A l \in 1 .. k : ~Predict(pipe, sent[l]).err}
    IN  [k \in 1 .. Cardinality(ok) |-> [x |-> grid[k], qe |-> Predict(pipe, sent[k]).qe]]

\* the loop of a sweep: a point is appended when its prediction returns,
\* and passed over when it raises
SweepResults(pipe, sent, grid) ==
    LET ok == SelectSeq([k \in DOMAIN grid |-> k],
                        LAMBDA k : ~Predict(pipe, sent[k]).err)
    IN  [i \in DOMAIN ok |-> [x |-> grid[ok[i]], qe |-> Predict(pipe, sent[ok[i]]).qe]]

\* one sweep: the records sent and the results kept
Sweep(pipe, base_params, target, sw) ==
    LET sent == [k \in DOMAIN sw.grid |-> SweepRow(base_params, target, sw.field, sw.grid[k])]
    IN  [name |-> sw.name, sent |-> sent, results |-> SweepResults(pipe, sent, sw.grid)]

ComesBefore_ascending(a, b) == a < b

\* sort_values('Predicted_qe', ascending=False)
ComesBefore(a, b) == a > b

\* sort_values sorts with quicksort, which fixes no order among equal
\* predictions: they come out in the order met, or reversed
TieOrders == {"kept", "reversed"}

SortByQe(rows, tie) ==
    LET Before(i, j) ==
            \/ ComesBefore(rows[i].Predicted_qe, rows[j].Predicted_qe)
            \/ /\ rows[i].Predicted_qe = rows[j].Predicted_qe
               /\ IF tie = "kept" THEN i < j ELSE i > j
        rank == [i \in DOMAIN rows |-> Cardinality({j \in DOMAIN rows : Before(j, i)}) + 1]
    IN  [p \in DOMAIN rows |-> rows[CHOOSE i \in DOMAIN rows : rank[i] = p]]

\* the comparison over the codes of solute_params
Comparison(pipe, base_params, tie) ==
    LET ok == SelectSeq(solute_params,
                 LAMBDA c : ~Predict(pipe, DictSet(base_params, "Target_Phar", Choice(c))).err)
        comparison_results ==
            [i \in DOMAIN ok |->
                [Drug_Code    |-> ok[i],
                 Predicted_qe |-> Predict(pipe, DictSet(base_params, "Target_Phar",
                                                        Choice(ok[i]))).qe]]
    IN  SortByQe(comparison_results, tie)

\* st.stop() and the outer except leave nothing shown
Shown(status) ==
    [status |-> status, yhat |-> 0, comparison |-> <<>>, sweeps |-> <<>>,
     base_params |-> <<>>]

SubmitStops_selection_only(row) ==
    IsNull(row["Target_Phar"]) \/ IsNull(row["Activation_Atmosphere"])

\* the st.stop() guards ahead of pipe.predict: no target, no atmosphere, or
\* both pore volumes given and the micropore volume the larger; an empty
\* numeric field only adds to the warning
SubmitStops(row) ==
    \/ IsNull(row["Target_Phar"]) \/ IsNull(row["Activation_Atmosphere"])
    \/ /\ ~IsNull(row["Total_Pore_Volume(cm3/g)"])
       /\ ~IsNull(row["Micropore_Volume(cm3/g)"])
       /\ row["Micropore_Volume(cm3/g)"].n > row["Total_Pore_Volume(cm3/g)"].n

\* the body of `if submitted:`
single_submit(vals, pipe, tie) ==
    LET row         == Row(vals)
        base_params == BaseParams(row)
    IN  IF SubmitStops(row)
        THEN Shown("stopped")
        ELSE IF Predict(pipe, row).err
        THEN Shown("failed")
        ELSE [status      |-> "done",
              yhat        |-> Predict(pipe, row).qe,
              comparison  |-> Comparison(pipe, base_params, tie),
              sweeps      |-> [s \in DOMAIN Sweeps |->
                                  Sweep(pipe, base_params, row["Target_Phar"], Sweeps[s])],
              base_params |-> base_params]

-----------------------------------------------------------------------------
(* The form submitted once, over bounded choices of its values and of the  *)
(* loaded pipeline                                                         *)

\* what the widgets hold when nothing is varied: the filled number inputs
\* and the sliders
FilledForm ==
    [k \in NumericFields |->
        CASE k = "Agent/Sample(g/g)"            -> Num(20)
          [] k = "Soaking_Time(min)"            -> Num(1200)
          [] k = "Soaking_Temp(K)"              -> Num(2980)
          [] k = "Activation_Time(min)"         -> Num(600)
          [] k = "Activation_Temp(K)"           -> Num(8000)
          [] k = "Temperature(K)"               -> Num(3150)
          [] k = "Initial_Concentration(mg/L)"  -> Num(5000)
          [] k = "Dosage(g/L)"                  -> Num(90)
          [] k = "Contact_Time(min)"            -> Num(30000)
          [] k = "Agitation_speed(rpm)"         -> Num(3500)
          [] k = "C_percent"                    -> Num(500)
          [] k = "O_percent"                    -> Num(250)
          [] k \in {"H_percent", "N_percent", "S_percent"} -> Num(10)
          [] OTHER                              -> NaN]

\* the forms: target chosen or not, atmosphere chosen or not, the pore
\* volumes empty, consistent or inconsistent, two positions of the pH slider
Forms ==
    {[k \in SeqSet(FormFields) |->
        CASE k = "Target_Phar"              -> target
          [] k = "Activation_Atmosphere"    -> atmosphere
          [] k = "Total_Pore_Volume(cm3/g)" -> pores[1]
          [] k = "Micropore_Volume(cm3/g)"  -> pores[2]
          [] k = "Solution_pH"              -> Num(ph)
          [] OTHER                          -> FilledForm[k]] :
        target \in {NaN, Choice("CIP"), Choice("OTC")},
        atmosphere \in {NaN, Choice("N2"), Choice("Air")},
        pores \in {<<NaN, NaN>>, <<Num(5), Num(3)>>, <<Num(3), Num(5)>>},
        ph \in {60, 70}}

\* the loaded pipelines: the record values and the codes they raise on,
\* and how the prediction depends on the record
Pipes ==
    [bad_field : {"Solution_pH"}, bad_value : {45, 60}, bad_codes : {{}, {"CIT", "OTC"}},
     slope : {0, 1}, by_code : BOOLEAN]
    \cup
    [bad_field : {"Agent/Sample(g/g)"}, bad_value : {60}, bad_codes : {{}, {"CIT", "OTC"}},
     slope : {0, 1}, by_code : BOOLEAN]

APP_Init ==
    /\ app_in \in [vals : Forms, pipe : Pipes]
    /\ app_out = Shown("none")
    /\ FE_Idle /\ EV_Idle /\ HPO_Idle /\ TR_Idle

\* the form is submitted
App_Submit ==
    /\ app_out.status = "none"
    /\ \E tie \in TieOrders :
          app_out' = single_submit(app_in.vals, app_in.pipe, tie)
    /\ UNCHANGED <<app_in, fe_vars, ev_vars, hpo_vars, tr_vars>>

APP_Next == App_Submit

SpecApp == APP_Init /\ [][APP_Next]_vars

-----------------------------------------------------------------------------
(* Properties of the submit handler                                        *)

AppDone == app_out.status = "done"

\* the submitted record, every field as the form holds it
Submitted == [k \in SeqSet(FormFields) |-> app_in.vals[k]]

\* the submitted record with one field set to a grid value
Overridden(field, v) == [Submitted EXCEPT ![field] = Num(v)]

\* the position of a value in a grid
IndexIn(grid, x) == CHOOSE k \in DOMAIN grid : grid[k] = x

\* C6: in every sweep the record sent for a grid value is the submitted
\* record, Target_Phar and Activation_Atmosphere included, with only the
\* swept field set to that value; the prediction recorded for the value is
\* the prediction of that record; base_params is the same after the sweeps
C6_SweepOverridesOneField ==
    AppDone =>
        /\ \A s \in DOMAIN Sweeps :
              /\ Len(app_out.sweeps[s].sent) = Len(Sweeps[s].grid)
              /\ \A k \in DOMAIN Sweeps[s].grid :
                    app_out.sweeps[s].sent[k] = Overridden(Sweeps[s].field, Sweeps[s].grid[k])
              /\ \A i \in DOMAIN app_out.sweeps[s].results :
                    LET r == app_out.sweeps[s].results[i]
                    IN  /\ \E k \in DOMAIN Sweeps[s].grid : Sweeps[s].grid[k] = r.x
                        /\ Predict(app_in.pipe, Overridden(Sweeps[s].field, r.x))
                              = [err |-> FALSE, qe |-> r.qe]
        /\ app_out.base_params =
              [k \in SeqSet(FormFields) \ {"Target_Phar"} |-> app_in.vals[k]]

\* the pH sweep has recorded, for a pH other than the submitted one, a
\* prediction other than the base prediction
C6_Witness ==
    /\ AppDone
    /\ app_in.vals["Activation_Atmosphere"] = Choice("N2")
    /\ \E s \in DOMAIN Sweeps :
          /\ Sweeps[s].field = "Solution_pH"
          /\ \E i \in DOMAIN app_out.sweeps[s].results :
                /\ Num(app_out.sweeps[s].results[i].x) # app_in.vals["Solution_pH"]
                /\ app_out.sweeps[s].results[i].qe # app_out.yhat

\* C7: in every sweep the results are the grid values whose prediction did
\* not raise, in grid order and none twice; a raising grid point ends
\* neither its sweep nor the handler: all nine sweeps are run
C7_FailedPointsOmitted ==
    /\ app_out.status = "failed" => Predict(app_in.pipe, Submitted).err
    /\ AppDone =>
          /\ Len(app_out.sweeps) = Len(Sweeps)
          /\ \A s \in DOMAIN Sweeps :
                LET grid == Sweeps[s].grid
                    res  == app_out.sweeps[s].results
                IN  /\ app_out.sweeps[s].name = Sweeps[s].name
                    /\ \A i \in DOMAIN res : \E k \in DOMAIN grid : grid[k] = res[i].x
                    /\ \A i, j \in DOMAIN res :
                          i < j => IndexIn(grid, res[i].x) < IndexIn(grid, res[j].x)
                    /\ \A k \in DOMAIN grid :
                          (\E i \in DOMAIN res : res[i].x = grid[k])
                             <=> ~Predict(app_in.pipe, Overridden(Sweeps[s].field, grid[k])).err

\* a sweep has lost one point in the middle of its grid, kept the points
\* after it, and the last sweep has run in full
C7_Witness ==
    /\ AppDone
    /\ \E s \in DOMAIN Sweeps :
          LET grid == Sweeps[s].grid
              res  == app_out.sweeps[s].results
          IN  /\ s < Len(Sweeps)
              /\ Len(res) = Len(grid) - 1
              /\ res[1].x = grid[1]
              /\ res[Len(res)].x = grid[Len(grid)]
    /\ Len(app_out.sweeps[Len(Sweeps)].results) = Len(Sweeps[Len(Sweeps)].grid)

\* C8: the comparison holds one entry for each code of solute_params whose
\* prediction, on the submitted record with only Target_Phar replaced, did
\* not raise: at most 21 entries, no code twice, in descending order of the
\* predicted value
C8_ComparisonSortedNoDuplicates ==
    AppDone =>
        LET cmp == app_out.comparison
            With(c) == [Submitted EXCEPT !["Target_Phar"] = Choice(c)]
        IN  /\ Len(cmp) <= 21
            /\ \A i, j \in DOMAIN cmp : i < j =>
                  /\ cmp[i].Drug_Code # cmp[j].Drug_Code
                  /\ cmp[i].Predicted_qe >= cmp[j].Predicted_qe
            /\ \A i \in DOMAIN cmp :
                  /\ \E k \in DOMAIN solute_params : solute_params[k] = cmp[i].Drug_Code
                  /\ Predict(app_in.pipe, With(cmp[i].Drug_Code))
                        = [err |-> FALSE, qe |-> cmp[i].Predicted_qe]
            /\ \A k \in DOMAIN solute_params :
                  ~Predict(app_in.pipe, With(solute_params[k])).err
                     => \E i \in DOMAIN cmp : cmp[i].Drug_Code = solute_params[k]

\* some codes failed and are missing, the others are reported with
\* different predicted values
C8_Witness ==
    /\ AppDone
    /\ Len(app_out.comparison) > 1
    /\ Len(app_out.comparison) < Len(solute_params)
    /\ app_out.comparison[1].Predicted_qe
          > app_out.comparison[Len(app_out.comparison)].Predicted_qe


\* C27: pipe.predict was invoked on the submitted record only with a target
\* and an atmosphere selected and, when both pore volumes are given, the
\* micropore volume not above the total; comparison and sweep predictions
\* exist only after the base prediction returned; and a form that passes
\* these guards is predicted even with numeric fields left empty
C27_PredictOnlyPastGuards ==
    /\ app_out.status \in {"done", "failed"} =>
          /\ ~IsNull(app_in.vals["Target_Phar"])
          /\ ~IsNull(app_in.vals["Activation_Atmosphere"])
          /\ \/ IsNull(app_in.vals["Total_Pore_Volume(cm3/g)"])
             \/ IsNull(app_in.vals["Micropore_Volume(cm3/g)"])
             \/ app_in.vals["Micropore_Volume(cm3/g)"].n
                   <= app_in.vals["Total_Pore_Volume(cm3/g)"].n
    /\ (app_out.comparison # <<>> \/ app_out.sweeps # <<>>) =>
          /\ app_out.status = "done"
          /\ Predict(app_in.pipe, Submitted) = [err |-> FALSE, qe |-> app_out.yhat]
    /\ app_out.status = "failed" => Predict(app_in.pipe, Submitted).err
    /\ (/\ app_out.status # "none"
        /\ ~IsNull(app_in.vals["Target_Phar"])
        /\ ~IsNull(app_in.vals["Activation_Atmosphere"])
        /\ IsNull(app_in.vals["Total_Pore_Volume(cm3/g)"])
        /\ IsNull(app_in.vals["pHpzc"])) =>
          app_out.status \in {"done", "failed"}

\* a form with target and atmosphere selected and the pore volumes, pHpzc
\* and surface area left empty: the prediction, the comparison and the
\* sweeps were made
C27_Witness ==
    /\ app_out.status = "done"
    /\ IsNull(app_in.vals["Total_Pore_Volume(cm3/g)"])
    /\ IsNull(app_in.vals["pHpzc"])
    /\ IsNull(app_in.vals["BET_Surface_Area(m2/g)"])
    /\ app_out.comparison # <<>>
    /\ app_out.sweeps # <<>>

-----------------------------------------------------------------------------
(* preprocessing.py: prepare_ml_data; pipelines.py: build_model_pool       *)

\* TEST_SIZE, in 1/100
TEST_SIZE == 20

target_col == "qe(mg/g)"

num_feats_all ==
    <<"Agent/Sample(g/g)", "Soaking_Time(min)", "Soaking_Temp(K)",
      "Activation_Time(min)", "Activation_Temp(K)", "Activation_Heating_Rate (K/min)",
      "BET_Surface_Area(m2/g)", "Total_Pore_Volume(cm3/g)", "Micropore_Volume(cm3/g)",
      "Average_Pore_Diameter(nm)", "pHpzc",
      "C_molar", "H_C_molar", "O_C_molar", "N_C_molar", "S_C_molar",
      "Initial_Concentration(mg/L)", "Solution_pH", "Temperature(K)",
      "Agitation_speed(rpm)", "Dosage(g/L)", "Contact_Time(min)",
      "E", "S", "A", "B", "V">>

\* train_test_split(test_size=TEST_SIZE): n_test = ceil(TEST_SIZE * n), the
\* test rows are the head of the shuffle, the train rows the rest
NTest(n) == (TEST_SIZE * n + 99) \div 100

\* the call raised: nothing is returned
PrepRaised(e) ==
    [err |-> e, X_train |-> EmptyTable, X_test |-> EmptyTable, y_train |-> <<>>,
     y_test |-> <<>>, preprocessor |-> [num |-> <<>>, cat |-> <<>>],
     num_feats |-> <<>>, cat_feats |-> <<>>, cat_idx_raw |-> <<>>]

\* the checks of prepare_ml_data in the order absent target, then no
\* feature; used to compare against the order of the code
prepare_checks_features_first(labels, n) ==
    IF ~\E c \in SeqSet(labels) : c \in SeqSet(num_feats_all) \cup {"Activation_Atmosphere"}
    THEN "ValueError"
    ELSE IF target_col \notin SeqSet(labels) THEN "KeyError"
    ELSE IF \E c \in SeqSet(num_feats_all) \cup {target_col} :
               Cardinality({k \in DOMAIN labels : labels[k] = c}) > 1
    THEN "TypeError"
    ELSE IF n - NTest(n) = 0 THEN "ValueError"
    ELSE "none"

\* what prepare_ml_data raises on a table with the given trimmed labels and
\* n rows: KeyError for an absent target, ValueError for no feature,
\* TypeError from pd.to_numeric of a label carried twice, ValueError from
\* train_test_split when no train row is left
prepare_checks(labels, n) ==
    IF target_col \notin SeqSet(labels) THEN "KeyError"
    ELSE IF ~\E c \in SeqSet(labels) : c \in SeqSet(num_feats_all) \cup {"Activation_Atmosphere"}
    THEN "ValueError"
    ELSE IF \E c \in SeqSet(num_feats_all) \cup {target_col} :
               Cardinality({k \in DOMAIN labels : labels[k] = c}) > 1
    THEN "TypeError"
    ELSE IF n - NTest(n) = 0 THEN "ValueError"
    ELSE "none"

\* prepare_ml_data(df), perm the shuffle train_test_split draws
prepare_ml_data(df, perm) ==
    LET labels    == [k \in DOMAIN df.cols |-> StripLabel(df.cols[k])]
        n         == Len(df.rows)
        num_feats == SelectSeq(num_feats_all, LAMBDA c : c \in SeqSet(labels))
        cat_feats == IF "Activation_Atmosphere" \in SeqSet(labels)
                     THEN <<"Activation_Atmosphere">> ELSE <<>>
        err       == prepare_checks(labels, n)
    IN  IF err # "none" THEN PrepRaised(err)
        ELSE
          LET TakeRows(t, idx) == Frame(t.cols, [k \in DOMAIN idx |-> t.rows[idx[k]]])
              typed == AsCategoryCols(
                          CoerceCols(StripLabels(df), Append(num_feats, target_col)),
                          cat_feats)
              X     == SelectCols(typed, num_feats \o cat_feats)
              test  == SubSeq(perm, 1, NTest(n))
              train == SubSeq(perm, NTest(n) + 1, n)
          IN  [err          |-> "none",
               X_train      |-> TakeRows(X, train),
               X_test       |-> TakeRows(X, test),
               y_train      |-> [k \in DOMAIN train |-> typed.rows[train[k]][target_col]],
               y_test       |-> [k \in DOMAIN test |-> typed.rows[test[k]][target_col]],
               preprocessor |-> [num |-> num_feats, cat |-> cat_feats],
               num_feats    |-> num_feats,
               cat_feats    |-> cat_feats,
               cat_idx_raw  |-> [k \in DOMAIN cat_feats |-> Len(num_feats) + k - 1]]

\* a pool entry without pipeline
NoPipeline == <<>>

\* Pipeline([("fe", DomainFE(...)), ("reg", reg)])
NativePipeline(num_feats, cat_feats, reg) ==
    <<[step |-> "fe", obj |-> [kind |-> "DomainFE", num_feats |-> num_feats,
                               cat_feats |-> cat_feats]],
      [step |-> "reg", obj |-> [kind |-> reg]]>>

\* Pipeline([("fe", DomainFE(...)), ("pre", pre_ohe), ("reg", reg)])
OhePipeline(pre_ohe, num_feats, cat_feats, reg) ==
    <<NativePipeline(num_feats, cat_feats, reg)[1],
      [step |-> "pre", obj |-> pre_ohe],
      NativePipeline(num_feats, cat_feats, reg)[2]>>

\* one branch of build_model_pool: the entry appended for position k
PoolEntry(k, available, pipe) ==
    IF available THEN [name |-> PoolNames[k], pipe |-> pipe]
    ELSE [name |-> SkippedNames[k], pipe |-> NoPipeline]

build_model_pool_available_only(lib, pre_ohe, num_feats, cat_feats) ==
    SelectSeq(
      <<PoolEntry(1, lib["catboost"], NativePipeline(num_feats, cat_feats, "CatBoostSk")),
        PoolEntry(2, lib["lightgbm"], NativePipeline(num_feats, cat_feats, "LGBMSk-gbdt")),
        PoolEntry(3, lib["xgboost"], NativePipeline(num_feats, cat_feats, "XGBSk")),
        PoolEntry(4, TRUE, OhePipeline(pre_ohe, num_feats, cat_feats,
                                       "HistGradientBoostingRegressor")),
        PoolEntry(5, lib["ebm"], OhePipeline(pre_ohe, num_feats, cat_feats,
                                             "ExplainableBoostingRegressor")),
        PoolEntry(6, lib["lightgbm"], NativePipeline(num_feats, cat_feats, "LGBMSk-dart"))>>,
      LAMBDA e : e.pipe # NoPipeline)

\* build_model_pool, lib the dict config.have
build_model_pool(lib, pre_ohe, num_feats, cat_feats) ==
    <<PoolEntry(1, lib["catboost"], NativePipeline(num_feats, cat_feats, "CatBoostSk")),
      PoolEntry(2, lib["lightgbm"], NativePipeline(num_feats, cat_feats, "LGBMSk-gbdt")),
      PoolEntry(3, lib["xgboost"], NativePipeline(num_feats, cat_feats, "XGBSk")),
      PoolEntry(4, TRUE, OhePipeline(pre_ohe, num_feats, cat_feats,
                                     "HistGradientBoostingRegressor")),
      PoolEntry(5, lib["ebm"], OhePipeline(pre_ohe, num_feats, cat_feats,
                                           "ExplainableBoostingRegressor")),
      PoolEntry(6, lib["lightgbm"], NativePipeline(num_feats, cat_feats, "LGBMSk-dart"))>>

\* the object behind a stage of pool entry k: the "pre" stage is the one
\* ColumnTransformer the caller passed in, every other stage is constructed
\* in the entry's own branch
StageObject(k, stage) ==
    IF stage.step = "pre" THEN [owner |-> 0, step |-> "pre"]
    ELSE [owner |-> k, step |-> stage.step]

StageObjects(models) ==
    UNION {{StageObject(k, models[k].pipe[j]) : j \in DOMAIN models[k].pipe} :
             k \in DOMAIN models}

\* Pipeline.fit of pool entry k (memory=None: no stage is cloned): each of
\* its stage objects is fitted in place; fitted[o] holds the entries whose
\* fit has fitted object o
PipelineFit(models, fitted, k) ==
    [o \in DOMAIN fitted |->
        IF \E j \in DOMAIN models[k].pipe : StageObject(k, models[k].pipe[j]) = o
        THEN fitted[o] \cup {k} ELSE fitted[o]]

-----------------------------------------------------------------------------
(* The training preparation on bounded raw tables, for every combination   *)
(* of optional libraries                                                   *)

MaxTrainRows == 3

MaxFits == 2

\* config.have: one flag for each optional library
HaveDicts == [{"catboost", "lightgbm", "xgboost", "ebm"} -> BOOLEAN]

\* column layouts of the raw table: features and target; no target; a
\* padded target label; no feature; neither; only the categorical feature;
\* only a numeric one; a numeric feature label carried twice after trimming
TrainLayouts ==
    { <<"Solution_pH", "Activation_Atmosphere", "Target_Phar", "qe(mg/g)">>,
      <<"Solution_pH", "Activation_Atmosphere">>,
      <<"Solution_pH", "Activation_Atmosphere", "qe(mg/g) ">>,
      <<"Target_Phar", "qe(mg/g)">>,
      <<"Target_Phar">>,
      <<"Activation_Atmosphere", "qe(mg/g)">>,
      <<"E", "qe(mg/g)">>,
      <<"Solution_pH", " Solution_pH", "qe(mg/g)">> }

\* the raw tables: up to MaxTrainRows rows; a dirty table holds text in the
\* numeric cells of its first row
TrainTables ==
    LET TrainCell(c, i, dirty) ==
            IF c \in {"Activation_Atmosphere", "Target_Phar"} THEN Str(<<"N", "2">>)
            ELSE IF dirty /\ i = 1 THEN Str(<<"x">>)
            ELSE Num(10 * i)
    IN  {Frame(cols, [i \in 1 .. n |-> [c \in SeqSet(cols) |-> TrainCell(c, i, dirty)]]) :
            cols \in TrainLayouts, n \in 0 .. MaxTrainRows, dirty \in BOOLEAN}

TR_Init ==
    /\ tr_in \in UNION {[df : {t}, perm : Permutations(1 .. Len(t.rows)), have : HaveDicts] :
                           t \in TrainTables}
    /\ tr_out = [prep |-> PrepRaised("notrun"), built |-> FALSE, models |-> <<>>,
                 fitted |-> <<>>]
    /\ FE_Idle /\ EV_Idle /\ HPO_Idle /\ APP_Idle

\* prepare_ml_data is called on the raw table
TR_Prepare ==
    /\ tr_out.prep.err = "notrun"
    /\ tr_out' = [tr_out EXCEPT !.prep = prepare_ml_data(tr_in.df, tr_in.perm)]
    /\ UNCHANGED <<tr_in, fe_vars, ev_vars, hpo_vars, app_vars>>

\* build_model_pool is called with what prepare_ml_data returned
TR_BuildPool ==
    /\ tr_out.prep.err = "none"
    /\ ~tr_out.built
    /\ \E pool \in {build_model_pool(tr_in.have, tr_out.prep.preprocessor,
                                      tr_out.prep.num_feats, tr_out.prep.cat_feats)} :
          tr_out' = [tr_out EXCEPT
                        !.built = TRUE,
                        !.models = pool,
                        !.fitted = [o \in StageObjects(pool) |-> {}]]
    /\ UNCHANGED <<tr_in, fe_vars, ev_vars, hpo_vars, app_vars>>

\* pipe.fit(X_train, y_train) on a pool entry that has a pipeline and has
\* not been fitted yet, as the loop of evaluate_and_plot does
TR_Fit ==
    /\ tr_out.built
    /\ Cardinality(UNION {tr_out.fitted[o] : o \in DOMAIN tr_out.fitted}) < MaxFits
    /\ \E k \in DOMAIN tr_out.models :
          /\ tr_out.models[k].pipe # NoPipeline
          /\ k \notin tr_out.fitted[[owner |-> k, step |-> "reg"]]
          /\ tr_out' = [tr_out EXCEPT !.fitted = PipelineFit(tr_out.models, @, k)]
    /\ UNCHANGED <<tr_in, fe_vars, ev_vars, hpo_vars, app_vars>>

TR_Next == TR_Prepare \/ TR_BuildPool \/ TR_Fit

SpecTrain == TR_Init /\ [][TR_Next]_vars

-----------------------------------------------------------------------------
(* Properties of the training preparation                                  *)

\* the library behind each position of the pool, "sklearn" always present
LibAt == <<"catboost", "lightgbm", "xgboost", "sklearn", "ebm", "lightgbm">>

Installed(k) == LibAt[k] = "sklearn" \/ tr_in.have[LibAt[k]]

\* C13: for every combination of optional libraries the pool has six
\* entries in the order CatBoost, LightGBM-GBDT, XGBoost-GBTree, HistGBR,
\* EBM, LightGBM-DART; an entry has no pipeline exactly when its library is
\* unavailable, and exactly then its name is the name with " (skipped)"
C13_PoolKeepsSixPositions ==
    tr_out.built =>
        /\ Len(tr_out.models) = 6
        /\ \A k \in 1 .. 6 :
              /\ (tr_out.models[k].pipe = NoPipeline) <=> ~Installed(k)
              /\ (tr_out.models[k].name = SkippedNames[k]) <=> ~Installed(k)
              /\ (tr_out.models[k].name = PoolNames[k]) <=> Installed(k)

\* a pool built without lightgbm and with ebm: the second and sixth entries
\* are placeholders, HistGBR and EBM stand fourth and fifth
C13_Witness ==
    /\ tr_out.built
    /\ ~tr_in.have["lightgbm"] /\ tr_in.have["ebm"]
    /\ tr_out.models[2].pipe = NoPipeline
    /\ tr_out.models[4].name = "HistGBR"
    /\ tr_out.models[5].name = "EBM"
    /\ tr_out.models[6].name = "LightGBM-DART (skipped)"

Prepared == tr_out.prep.err # "notrun"

\* the trimmed labels of the raw table
TrLabels == {StripLabel(c) : c \in ColSet(tr_in.df)}

TargetAbsent == "qe(mg/g)" \notin TrLabels

NoFeature == TrLabels \cap (SeqSet(num_feats_all) \cup {"Activation_Atmosphere"}) = {}

\* two columns whose labels trim to the same numeric feature or target
CarriedTwice ==
    \E c, d \in ColSet(tr_in.df) :
       /\ c # d
       /\ StripLabel(c) = StripLabel(d)
       /\ StripLabel(c) \in SeqSet(num_feats_all) \cup {"qe(mg/g)"}

\* C14 as stated: prepare_ml_data raises exactly when the target column is
\* absent or no feature column is present, and returns for every other
\* table; the target is checked first
C14_RaisesOnlyForTargetOrFeatures ==
    Prepared =>
        /\ (tr_out.prep.err # "none") <=> (TargetAbsent \/ NoFeature)
        /\ TargetAbsent => tr_out.prep.err = "KeyError"

\* C14 amended: prepare_ml_data raises KeyError when the target column is
\* absent from the trimmed labels; else ValueError when no canonical numeric
\* feature and no Activation_Atmosphere is present; else TypeError when a
\* numeric feature or the target is carried by two columns; else ValueError
\* when the table has fewer than two rows; it returns for every other table
C14_RaisesForTargetFeaturesDuplicatesOrRows ==
    Prepared =>
        /\ tr_out.prep.err =
              IF TargetAbsent THEN "KeyError"
              ELSE IF NoFeature THEN "ValueError"
              ELSE IF CarriedTwice THEN "TypeError"
              ELSE IF Len(tr_in.df.rows) < 2 THEN "ValueError"
              ELSE "none"
        /\ tr_out.prep.err = "none" =>
              /\ tr_out.prep.num_feats \o tr_out.prep.cat_feats # <<>>
              /\ tr_out.prep.X_train.cols = tr_out.prep.num_feats \o tr_out.prep.cat_feats
              /\ Len(tr_out.prep.X_train.rows) >= 1
              /\ Len(tr_out.prep.X_train.rows) + Len(tr_out.prep.X_test.rows)
                    = Len(tr_in.df.rows)

\* a one-row table with target and features: the split raised
C14_Witness ==
    /\ tr_out.prep.err = "ValueError"
    /\ ~TargetAbsent /\ ~NoFeature /\ ~CarriedTwice
    /\ Len(tr_in.df.rows) = 1

\* Claim C29: the pipelines of one pool share no mutable stage: fitting any one
\* pool pipeline leaves the fitted state of every stage of every other pool
\* pipeline unchanged, so each stage of an entry has been fitted by no fit
\* but that entry's own (in particular the encoder stages of HistGBR and EBM)
C29_PoolPipelinesShareNoStage ==
    tr_out.built =>
        \A k \in DOMAIN tr_out.models :
            \A j \in DOMAIN tr_out.models[k].pipe :
                tr_out.fitted[StageObject(k, tr_out.models[k].pipe[j])] \subseteq {k}

\* only EBM has been fitted, and the encoder stage of HistGBR is fitted by it
C29_Witness ==
    /\ tr_out.built
    /\ tr_in.have["ebm"]
    /\ tr_out.fitted[[owner |-> 5, step |-> "reg"]] = {5}
    /\ tr_out.fitted[[owner |-> 4, step |-> "reg"]] = {}
    /\ tr_out.models[4].pipe[2].step = "pre"
    /\ tr_out.fitted[StageObject(4, tr_out.models[4].pipe[2])] = {5}

-----------------------------------------------------------------------------
(* aqua_ml_app.py: load_artifacts and the batch upload flow; test_model.py: *)
(* load_model_and_meta and main.  The artifact files are [model, manifest]: *)
(* the model file is missing, corrupt or ok; the manifest is missing,       *)
(* unreadable, or a JSON object without a "features" key, with an empty     *)
(* list, with null, or ok.  A loaded pipeline is [fe, reg]: the features    *)
(* its DomainFE declares and the fitted regressor.                          *)

\* meta.get("features", []): None is [none |-> TRUE]
ManifestFeatures(manifest) ==
    CASE manifest = "ok" -> [none |-> FALSE, names |-> fe_num_feats \o fe_cat_feats]
      [] manifest = "null" -> [none |-> TRUE, names |-> <<>>]
      [] OTHER -> [none |-> FALSE, names |-> <<>>]

\* load_artifacts: st.stop() on a model that cannot be loaded, on a manifest
\* that cannot be read, and on "not feats"
load_artifacts(files) ==
    IF \/ files.model # "ok"
       \/ files.manifest \in {"missing", "unreadable"}
       \/ ManifestFeatures(files.manifest).none
       \/ ManifestFeatures(files.manifest).names = <<>>
    THEN [status |-> "stopped", feats |-> <<>>]
    ELSE [status |-> "loaded", feats |-> ManifestFeatures(files.manifest).names]

\* load_model_and_meta: (None, None) on any exception, else the pipeline and
\* whatever meta.get returned
load_model_and_meta(files) ==
    IF files.model # "ok" \/ files.manifest \in {"missing", "unreadable"}
    THEN [pipe_none |-> TRUE, features |-> [none |-> TRUE, names |-> <<>>]]
    ELSE [pipe_none |-> FALSE, features |-> ManifestFeatures(files.manifest)]

\* pipe.predict(X) of Pipeline([("fe", DomainFE), ("reg", reg)]): the
\* regressor raises unless it is given exactly the columns it was fitted on,
\* and on a row it cannot take (a Solution_pH in reg.bad); else its
\* prediction is a fixed function of the feature row, here additive in
\* Solution_pH and the feature reg.on
PipePredict(pipe, X, pdf) ==
    LET v(cell) == IF IsNum(cell) THEN cell.n ELSE 0
        one(row) == Num(v(row["Solution_pH"]) + pipe.reg.slope * v(row[pipe.reg.on]))
        reg(r) ==
          IF r.err # "none" THEN [err |-> r.err, fe |-> EmptyTable, yhat |-> <<>>]
          ELSE IF \/ r.ret.cols # pipe.fe.num_feats \o pipe.fe.cat_feats
                  \/ r.ret.rows = <<>>
                  \/ \E i \in RowIdx(r.ret) : \E b \in pipe.reg.bad :
                        r.ret.rows[i]["Solution_pH"] = Num(b)
          THEN [err |-> "ValueError", fe |-> r.ret, yhat |-> <<>>]
          ELSE [err |-> "none", fe |-> r.ret,
                yhat |-> [i \in RowIdx(r.ret) |-> one(r.ret.rows[i])]]
    IN  CHOOSE o \in {reg(r) : r \in {DomainFE_transform(pipe.fe.num_feats,
                                                         pipe.fe.cat_feats, X, pdf)}} : TRUE

\* create_test_data, in the columns the pipeline's DomainFE reads
create_test_data ==
    Frame(RawCols,
          <<[c \in SeqSet(RawCols) |->
               CASE c = "Target_Phar" -> Str(<<"C","I","P">>)
                 [] c = "Activation_Atmosphere" -> Str(<<"N","2">>)
                 [] c = "Solution_pH" -> Num(70)
                 [] c = "C_percent" -> Num(743)
                 [] c = "H_percent" -> Num(35)
                 [] c = "O_percent" -> Num(54)
                 [] c = "N_percent" -> Num(25)
                 [] c = "S_percent" -> Num(25)]>>)

\* main of test_model.py: returns when pipe is None, dies on len(None), and
\* otherwise calls pipe.predict inside try/except
test_main(files, pipe, pdf) ==
    LET run(p) == [status |-> IF p.err = "none" THEN "predicted" ELSE "predict_failed",
                   predicts |-> 1, yhat |-> p.yhat]
    IN  IF load_model_and_meta(files).pipe_none
        THEN [status |-> "not_loaded", predicts |-> 0, yhat |-> <<>>]
        ELSE IF load_model_and_meta(files).features.none
        THEN [status |-> "TypeError", predicts |-> 0, yhat |-> <<>>]
        ELSE CHOOSE o \in {run(p) : p \in {PipePredict(pipe, create_test_data, pdf)}} : TRUE

required_cols == <<"Target_Phar", "Activation_Atmosphere">>

\* c.startswith(('Agent', 'Soaking', 'Activation', ..., 'Agitation')) on the
\* labels an uploaded table can carry
StartsWithKnown(c) ==
    c \in {"Activation_Atmosphere", "Solution_pH", "C_percent", "H_percent",
           "O_percent", "N_percent", "S_percent"}

\* the columns the flow warns about: "unrecognized, will be ignored"
Unrecognized(df) ==
    SelectSeq(df.cols, LAMBDA c : c \notin SeqSet(required_cols) /\ ~StartsWithKnown(c))

WithPrediction_none(df, yhat) == df

\* out = df.copy(); out["Pred_qe"] = yhat
WithPrediction(df, yhat) == SetCol(df, "Pred_qe", yhat)

BatchStopped(why, extra) ==
    [status |-> why, extra |-> extra, predicts |-> 0, fe |-> EmptyTable,
     yhat |-> <<>>, out |-> EmptyTable]

\* the batch upload flow on a file that could be read
batch_flow(df, pipe, pdf) ==
    LET show(p) ==
          IF p.err # "none"
          THEN [BatchStopped("stopped_predict", Unrecognized(df)) EXCEPT !.predicts = 1]
          ELSE [status |-> "shown", extra |-> Unrecognized(df), predicts |-> 1,
                fe |-> p.fe, yhat |-> p.yhat, out |-> WithPrediction(df, p.yhat)]
    IN  IF \E k \in DOMAIN required_cols : ~HasCol(df, required_cols[k])
        THEN BatchStopped("stopped_missing", <<>>)
        ELSE CHOOSE o \in {show(p) : p \in {PipePredict(pipe, df, pdf)}} : TRUE

-----------------------------------------------------------------------------
(* The app started on bounded artifact files and a table uploaded to it,   *)
(* and the test script run on the same files                               *)

ArtifactFiles ==
    [model : {"missing", "corrupt", "ok"},
     manifest : {"missing", "unreadable", "no_key", "empty", "null", "ok"}]

\* the fitted pipeline in the model file: the regressor leans on Solution_pH
\* and on E or on H_C_molar, and takes every row or raises on pH 4.5
FittedPipes ==
    {[fe |-> [num_feats |-> fe_num_feats, cat_feats |-> fe_cat_feats],
      reg |-> [on |-> f, slope |-> s, bad |-> b]] :
        f \in {"E", "H_C_molar"}, s \in {1}, b \in {{}, {45}}}

\* column layouts of an uploaded table: the raw columns; a required column
\* or a feature column absent; a column E, H_C_molar, Pred_qe or Note carried
BatchLayouts ==
    { RawCols,
      SelectSeq(RawCols, LAMBDA c : c # "Target_Phar"),
      SelectSeq(RawCols, LAMBDA c : c # "Activation_Atmosphere"),
      SelectSeq(RawCols, LAMBDA c : c # "Solution_pH"),
      RawCols \o <<"E">>,
      RawCols \o <<"H_C_molar">>,
      RawCols \o <<"Pred_qe">>,
      <<"Pred_qe">> \o RawCols,
      RawCols \o <<"Note">> }

BatchRows ==
    { [c \in SeqSet(RawCols) \cup {"E", "H_C_molar", "Pred_qe", "Note"} |->
         CASE c = "Target_Phar" -> tp
           [] c = "C_percent" -> cc
           [] c \in {"E", "H_C_molar", "Pred_qe", "Note"} -> xx
           [] OTHER -> create_test_data.rows[1][c]] :
        tp \in {Str(<<"C","I","P">>), Str(<<"X","Y","Z">>)},
        cc \in {Num(743), Num(0)},
        xx \in {Num(5000), NaN, Str(<<"x">>)} }

BatchTables ==
    { [cols |-> lay, rows |-> <<Restrict(r1, lay)>>] :
         lay \in BatchLayouts, r1 \in BatchRows }
    \cup
    { [cols |-> lay, rows |-> <<Restrict(r1, lay), Restrict(r2, lay)>>] :
         lay \in BatchLayouts, r1 \in BatchRows,
         r2 \in {[r EXCEPT !["Solution_pH"] = Num(ph)] :
                   r \in {q \in BatchRows : /\ q["Target_Phar"] = Str(<<"X","Y","Z">>)
                                             /\ q["C_percent"] = Num(0)
                                             /\ q["E"] = NaN},
                   ph \in {45, 70}} }

\* every state of the artifact files with the script's own record uploaded,
\* and every table uploaded to an app whose artifacts are in order
BatchInputs ==
    [files : ArtifactFiles, pipe : FittedPipes, table : {create_test_data}]
    \cup
    [files : {[model |-> "ok", manifest |-> "ok"]}, pipe : FittedPipes,
     table : BatchTables]

NotStarted ==
    [load |-> [status |-> "none", feats |-> <<>>],
     batch |-> BatchStopped("none", <<>>),
     script |-> [status |-> "none", predicts |-> 0, yhat |-> <<>>]]

BT_Init ==
    /\ app_in \in BatchInputs
    /\ app_out = NotStarted
    /\ FE_Idle /\ EV_Idle /\ HPO_Idle /\ TR_Idle

\* the app starts: load_artifacts
App_Load ==
    /\ app_out.load.status = "none"
    /\ app_out' = [app_out EXCEPT !.load = load_artifacts(app_in.files)]
    /\ UNCHANGED <<app_in, fe_vars, ev_vars, hpo_vars, tr_vars>>

\* a table is uploaded to the started app
App_Upload ==
    /\ app_out.load.status = "loaded"
    /\ app_out.batch.status = "none"
    /\ app_out' = [app_out EXCEPT !.batch = batch_flow(app_in.table, app_in.pipe, pharm_df)]
    /\ UNCHANGED <<app_in, fe_vars, ev_vars, hpo_vars, tr_vars>>

\* python test_model.py
Script_Main ==
    /\ app_out.script.status = "none"
    /\ app_out' = [app_out EXCEPT !.script = test_main(app_in.files, app_in.pipe, pharm_df)]
    /\ UNCHANGED <<app_in, fe_vars, ev_vars, hpo_vars, tr_vars>>

BT_Next == App_Load \/ App_Upload \/ Script_Main

SpecBatch == BT_Init /\ [][BT_Next]_vars

-----------------------------------------------------------------------------
(* Properties of the loaders and of the batch flow, checked under SpecBatch *)

\* the artifacts the loaders must refuse: no model file, no readable
\* manifest, or a manifest whose feature list is absent or empty
BadArtifacts ==
    \/ app_in.files.model = "missing"
    \/ app_in.files.manifest \in {"missing", "unreadable", "no_key", "empty", "null"}

\* C15: on such artifacts neither load_artifacts nor the test script goes on:
\* the app is not loaded and no pipe.predict is called by either
C15_NoPredictOnBadArtifacts ==
    BadArtifacts =>
       /\ app_out.load.status # "loaded"
       /\ app_out.batch.predicts = 0
       /\ app_out.script.predicts = 0

\* a manifest without a "features" key beside a good model file: the app
\* stopped in load_artifacts, the test script went on to pipe.predict
C15_Witness ==
    /\ app_in.files = [model |-> "ok", manifest |-> "no_key"]
    /\ app_out.load.status = "stopped"
    /\ app_out.script.status = "predicted"
    /\ app_out.script.predicts = 1

MissingRequired ==
    ~HasCol(app_in.table, "Target_Phar") \/ ~HasCol(app_in.table, "Activation_Atmosphere")

\* the shown table has the rows of the upload and, in every column of the
\* upload other than those in replaced, the values of the upload; its
\* Pred_qe holds the predictions
KeepsUpload(replaced) ==
    /\ Len(app_out.batch.out.rows) = Len(app_in.table.rows)
    /\ \A i \in RowIdx(app_in.table) :
          /\ \A c \in ColSet(app_in.table) \ replaced :
                app_out.batch.out.rows[i][c] = app_in.table.rows[i][c]
          /\ app_out.batch.out.rows[i]["Pred_qe"] = app_out.batch.yhat[i]

\* C16 as stated: an upload without Target_Phar or Activation_Atmosphere
\* stops before predict; a shown table is the upload, every column of it
\* unchanged, with one column Pred_qe appended
C16_BatchAppendsPredQe ==
    /\ (app_out.batch.status # "none" /\ MissingRequired) =>
          app_out.batch.status = "stopped_missing" /\ app_out.batch.predicts = 0
    /\ app_out.batch.status = "shown" =>
          /\ app_out.batch.out.cols = Append(app_in.table.cols, "Pred_qe")
          /\ KeepsUpload({})

\* C16: an upload without Target_Phar or Activation_Atmosphere stops before
\* predict; a shown table is the upload with the predictions in Pred_qe,
\* appended as the last column when the upload has no column of that name
\* and written over the upload's Pred_qe, in its place, when it has one
C16_BatchAddsOrReplacesPredQe ==
    /\ (app_out.batch.status # "none" /\ MissingRequired) =>
          app_out.batch.status = "stopped_missing" /\ app_out.batch.predicts = 0
    /\ app_out.batch.status = "shown" =>
          /\ app_out.batch.out.cols =
                IF HasCol(app_in.table, "Pred_qe") THEN app_in.table.cols
                ELSE Append(app_in.table.cols, "Pred_qe")
          /\ KeepsUpload({"Pred_qe"})

\* a shown upload of two rows whose first column was Pred_qe = 500.0: the
\* column count is unchanged and the carried value is gone
C16_Witness ==
    /\ app_out.batch.status = "shown"
    /\ Len(app_in.table.rows) = 2
    /\ app_in.table.cols[1] = "Pred_qe"
    /\ app_in.table.rows[1]["Pred_qe"] = Num(5000)
    /\ app_out.batch.out.cols = app_in.table.cols
    /\ app_out.batch.out.rows[1]["Pred_qe"] # Num(5000)

\* C20: the columns the flow warns about do not influence the prediction:
\* the upload without them yields the same derived features and the same
\* predictions
C20_UnrecognizedColumnsIgnored ==
    app_out.batch.status = "shown" =>
       \A ref \in {PipePredict(app_in.pipe,
                                DropCols(app_in.table, SeqSet(app_out.batch.extra)),
                                pharm_df)} :
          /\ ref.err = "none"
          /\ ref.fe = app_out.batch.fe
          /\ ref.yhat = app_out.batch.yhat

\* an upload for CIP carrying a column E = 0.5: the flow warned that E is
\* ignored, yet the derived E is the carried 0.5 and the prediction of a
\* regressor that leans on E follows it
C20_Witness ==
    /\ app_out.batch.status = "shown"
    /\ app_out.batch.extra = <<"E">>
    /\ app_in.table.rows[1]["Target_Phar"] = Str(<<"C","I","P">>)
    /\ app_in.table.rows[1]["E"] = Num(5000)
    /\ app_out.batch.fe.rows[1]["E"] = Num(5000)
    /\ app_in.pipe.reg.on = "E"
    /\ app_out.batch.yhat[1] = Num(70 + 5000)

\* the upload cut down to its row i
OneRow(i) == [cols |-> app_in.table.cols, rows |-> <<app_in.table.rows[i]>>]

\* C21: a prediction failure caused by one row is isolated to that row: the
\* table is shown, and every row the pipeline predicts when given alone has
\* its prediction in it
C21_RowFailureIsolated ==
    (app_out.batch.status # "none" /\ ~MissingRequired) =>
       \A i \in RowIdx(app_in.table) :
          \A one \in {PipePredict(app_in.pipe, OneRow(i), pharm_df)} :
             one.err = "none" =>
                /\ app_out.batch.status = "shown"
                /\ app_out.batch.out.rows[i]["Pred_qe"] = one.yhat[1]

\* two rows, the second with the pH the regressor raises on: the flow
\* stopped after its one predict call and shows no prediction for the
\* first row either
C21_Witness ==
    /\ app_out.batch.status = "stopped_predict"
    /\ app_out.batch.predicts = 1
    /\ Len(app_in.table.rows) = 2
    /\ HasCol(app_in.table, "Solution_pH")
    /\ app_in.table.rows[1]["Solution_pH"] = Num(70)
    /\ app_in.table.rows[2]["Solution_pH"] = Num(45)
    /\ app_in.pipe.reg.bad = {45}
    /\ app_out.batch.out = EmptyTable
    /\ PipePredict(app_in.pipe, OneRow(1), pharm_df).err = "none"

-----------------------------------------------------------------------------
(* estimators.py: CatBoostSk, LGBMSk and XGBSk.  A wrapper object is        *)
(* [held, model_, trained]: the hyperparameters its attributes hold, the    *)
(* inner model (built or None, with the hyperparameters it was built with)  *)
(* and, once fit has trained, the hyperparameters the training used next to *)
(* those the wrapper held when fit was called.  learning_rate is in 1/100.  *)

HyperNames == {"learning_rate", "n_estimators"}

NoHyper == [h \in HyperNames |-> 0]

\* __init__: the arguments are stored; CatBoostSk and LGBMSk leave model_
\* None, XGBSk builds its XGBRegressor here when xgboost is installed
EstimatorInit(kind, installed, params) ==
    [held |-> params,
     model_ |-> IF kind = "XGBSk" /\ installed
                THEN [built |-> TRUE, params |-> params]
                ELSE [built |-> FALSE, params |-> NoHyper],
     trained |-> [done |-> FALSE, used |-> NoHyper, held |-> NoHyper]]

\* fit: CatBoostSk and LGBMSk build the inner model from the attributes and
\* train it; XGBSk trains the model_ it already has
EstimatorFit(kind, installed, w) ==
    IF kind = "XGBSk"
    THEN IF ~w.model_.built THEN [err |-> "RuntimeError", obj |-> w]
         ELSE [err |-> "none",
               obj |-> [w EXCEPT !.trained = [done |-> TRUE, used |-> w.model_.params,
                                              held |-> w.held]]]
    ELSE IF ~installed THEN [err |-> "RuntimeError", obj |-> w]
    ELSE [err |-> "none",
          obj |-> [w EXCEPT !.model_ = [built |-> TRUE, params |-> w.held],
                            !.trained = [done |-> TRUE, used |-> w.held, held |-> w.held]]]

-----------------------------------------------------------------------------
(* A wrapper constructed, cloned, reconfigured and fitted, as a randomized  *)
(* search does with the "reg" step of a pipeline                            *)

MaxEstOps == 3

HyperValues ==
    [h \in HyperNames |-> IF h = "learning_rate" THEN {1, 5} ELSE {600, 1500}]

EST_Init ==
    /\ tr_in \in [kind : {"CatBoostSk", "LGBMSk", "XGBSk"}, installed : BOOLEAN]
    /\ \E params \in [learning_rate : HyperValues["learning_rate"],
                       n_estimators : HyperValues["n_estimators"]] :
          tr_out = [obj |-> EstimatorInit(tr_in.kind, tr_in.installed, params),
                    ops |-> <<>>, err |-> "none"]
    /\ FE_Idle /\ EV_Idle /\ HPO_Idle /\ APP_Idle

\* sklearn.base.clone: a new object of the class from get_params()
Est_Clone ==
    /\ Len(tr_out.ops) < MaxEstOps
    /\ tr_out' = [obj |-> EstimatorInit(tr_in.kind, tr_in.installed, tr_out.obj.held),
                  ops |-> Append(tr_out.ops, "clone"), err |-> "none"]
    /\ UNCHANGED <<tr_in, fe_vars, ev_vars, hpo_vars, app_vars>>

\* BaseEstimator.set_params: setattr of one hyperparameter
Est_SetParams ==
    /\ Len(tr_out.ops) < MaxEstOps
    /\ \E h \in HyperNames : \E v \in HyperValues[h] :
          tr_out' = [obj |-> [tr_out.obj EXCEPT !.held[h] = v],
                    ops |-> Append(tr_out.ops, "set_params"), err |-> "none"]
    /\ UNCHANGED <<tr_in, fe_vars, ev_vars, hpo_vars, app_vars>>

\* fit
Est_Fit ==
    /\ Len(tr_out.ops) < MaxEstOps
    /\ \E r \in {EstimatorFit(tr_in.kind, tr_in.installed, tr_out.obj)} :
          tr_out' = [obj |-> r.obj, ops |-> Append(tr_out.ops, "fit"), err |-> r.err]
    /\ UNCHANGED <<tr_in, fe_vars, ev_vars, hpo_vars, app_vars>>

EST_Next == Est_Clone \/ Est_SetParams \/ Est_Fit

SpecEst == EST_Init /\ [][EST_Next]_vars

-----------------------------------------------------------------------------
(* Properties of the estimator wrappers, checked under SpecEst              *)

\* C26: the inner model a fit has trained used the hyperparameter values
\* the wrapper held when fit was called, after any construction, clone and
\* set_params calls
C26_FitUsesHeldHyperparameters ==
    tr_out.obj.trained.done => tr_out.obj.trained.used = tr_out.obj.trained.held

\* an XGBSk cloned, given learning_rate 0.01 through set_params and fitted,
\* as the randomized search does: the training used the learning rate of
\* construction, 0.05
C26_Witness ==
    /\ tr_in.kind = "XGBSk"
    /\ tr_out.ops = <<"clone", "set_params", "fit">>
    /\ tr_out.err = "none"
    /\ tr_out.obj.held["learning_rate"] = 1
    /\ tr_out.obj.trained.held["learning_rate"] = 1
    /\ tr_out.obj.trained.used["learning_rate"] = 5

-----------------------------------------------------------------------------
(* evaluation1.py: the second evaluate_and_plot, with the loop, the figure *)
(* and the ranking of the first.  Its OOF export is a function defined     *)
(* inside its own body, below the place that calls it.                     *)

\* evaluate_and_plot of evaluation1.py: with a result row it ranks, picks
\* the winner and calls export_oof_with_pharma, a local name of the function
\* that is bound only by the def further down: the call raises
evaluation1_evaluate_and_plot(models, n, perm, fails) ==
    LET seen      == SubSeq(models, 1, Min2(NumAxes, Len(models)))
        evaluated == SelectSeq(seen, LAMBDA m : m.pipe # 0)
    IN  IF evaluated # <<>> /\ n < cv_splits THEN EvalRaised("ValueError")
        ELSE IF "figure" \in fails THEN EvalRaised("OSError")
        ELSE IF evaluated = <<>> THEN EmptyResult
        ELSE EvalRaised("UnboundLocalError")

-----------------------------------------------------------------------------
(* Both harnesses called on the same candidate list; ev_out holds the      *)
(* outcome of each                                                         *)

\* a list longer than the panel grid: the six pool candidates and one more,
\* with or without a pipeline
LongInputs ==
    {[models |-> [k \in 1 .. NumAxes |->
                    [name |-> PoolNames[k], pipe |-> k, cv_rmse |-> Num(120 + k),
                     cv_r2 |-> Num(85), test_r2 |-> Num(80)]] \o <<last>>,
      n |-> cv_splits, perm |-> Identity(cv_splits), fails |-> {}] :
        last \in {[name |-> "Stacking", pipe |-> NumAxes + 1, cv_rmse |-> Num(r),
                   cv_r2 |-> Num(85), test_r2 |-> Num(80)] : r \in {110, 150}}
                \cup {[name |-> "Stacking (skipped)", pipe |-> 0, cv_rmse |-> NaN,
                       cv_r2 |-> NaN, test_r2 |-> NaN]}}

BOTH_Init ==
    /\ ev_in \in RankInputs \cup WriteInputs \cup LongInputs
    /\ ev_out = [first |-> NotEvaluated, second |-> NotEvaluated]
    /\ FE_Idle /\ HPO_Idle /\ APP_Idle /\ TR_Idle

\* the call of evaluation.evaluate_and_plot
Both_Evaluate ==
    /\ ev_out.first.status = "none"
    /\ ev_out' = [ev_out EXCEPT
                     !.first = evaluate_and_plot(ev_in.models, ev_in.n, ev_in.perm,
                                                 ev_in.fails)]
    /\ UNCHANGED <<ev_in, fe_vars, hpo_vars, app_vars, tr_vars>>

\* the call of evaluation1.evaluate_and_plot
Both_Evaluate1 ==
    /\ ev_out.second.status = "none"
    /\ ev_out' = [ev_out EXCEPT
                     !.second = evaluation1_evaluate_and_plot(ev_in.models, ev_in.n,
                                                              ev_in.perm, ev_in.fails)]
    /\ UNCHANGED <<ev_in, fe_vars, hpo_vars, app_vars, tr_vars>>

BOTH_Next == Both_Evaluate \/ Both_Evaluate1

SpecBoth == BOTH_Init /\ [][BOTH_Next]_vars

-----------------------------------------------------------------------------
(* Properties of the two harnesses, checked under SpecBoth                 *)

\* Claim C25: evaluate_and_plot cross-validates, fits and scores every
\* candidate of its list that has a pipeline: the results table has exactly
\* one row per such candidate, for a list of any length, and a candidate
\* without a pipeline contributes no row
C25_OneRowPerCandidateWithPipeline ==
    ev_out.first.status = "returned" =>
        ev_out.first.results_df =
            [k \in DOMAIN SelectSeq(ev_in.models, LAMBDA m : m.pipe # 0) |->
                ResultRow(SelectSeq(ev_in.models, LAMBDA m : m.pipe # 0)[k])]

\* seven candidates with a pipeline, six rows
C25_Witness ==
    /\ ev_out.first.status = "returned"
    /\ Len(ev_in.models) = NumAxes + 1
    /\ \A k \in DOMAIN ev_in.models : ev_in.models[k].pipe # 0
    /\ Len(ev_out.first.results_df) = NumAxes
    /\ \A k \in DOMAIN ev_out.first.results_df :
          ev_out.first.results_df[k].model # "Stacking"

\* Claim C28: for the same pool and the same scores the two evaluate_and_plot
\* return the same ranked results, the same best_name and the same
\* best_pipe, and either both return or both raise
C28_HarnessesAgree ==
    (ev_out.first.status # "none" /\ ev_out.second.status # "none") =>
        /\ ev_out.first.status = ev_out.second.status
        /\ ev_out.first.results_sorted = ev_out.second.results_sorted
        /\ ev_out.first.best_name = ev_out.second.best_name
        /\ ev_out.first.best_pipe = ev_out.second.best_pipe

\* two candidates, no write failing: the first harness returns the winner,
\* the second raises
C28_Witness ==
    /\ Len(ev_in.models) = 2
    /\ \A k \in DOMAIN ev_in.models : ev_in.models[k].pipe # 0
    /\ ev_in.n = cv_splits
    /\ ev_in.fails = {}
    /\ ev_out.first.status = "returned"
    /\ ev_out.first.best_name # "None"
    /\ ev_out.second.status = "raised"
    /\ ev_out.second.err = "UnboundLocalError"

-----------------------------------------------------------------------------
(* evaluation.py: the OOF report of export_oof_with_pharma.  A training    *)
(* row is [y_true, y_pred, phar]: the true value, its out-of-fold          *)
(* prediction and its Target_Phar ("" when the cell is missing).  A mean   *)
(* is kept as [sum, n], the sum and the number of the values it is taken   *)
(* over; n = 0 is the NaN of a mean over nothing.  The values are such     *)
(* that every percentage is a whole number.                                *)

Abs(x) == IF x < 0 THEN -x ELSE x

RECURSIVE SumSeq(_)
SumSeq(q) == IF q = <<>> THEN 0 ELSE q[1] + SumSeq(Tail(q))

OofRow_zero(i, r) ==
    [idx |-> i, y_true |-> r.y_true, y_pred |-> r.y_pred,
     err |-> r.y_pred - r.y_true, abs_err |-> Abs(r.y_pred - r.y_true),
     sq_err |-> (r.y_pred - r.y_true) * (r.y_pred - r.y_true),
     ape |-> IF r.y_true = 0 THEN Num(0)
             ELSE Num((100 * Abs(r.y_pred - r.y_true)) \div r.y_true),
     phar |-> r.phar]

\* the columns of one row: err, abs_err, sq_err and
\* APE_% = abs_err / y_true.replace(0, NaN) * 100
OofRow(i, r) ==
    [idx |-> i, y_true |-> r.y_true, y_pred |-> r.y_pred,
     err |-> r.y_pred - r.y_true, abs_err |-> Abs(r.y_pred - r.y_true),
     sq_err |-> (r.y_pred - r.y_true) * (r.y_pred - r.y_true),
     ape |-> IF r.y_true = 0 THEN NaN
             ELSE Num((100 * Abs(r.y_pred - r.y_true)) \div r.y_true),
     phar |-> r.phar]

\* sort_values(..., ascending=False), before[i, j] telling that row i has
\* the larger key: a row goes behind the rows that are before it and behind
\* the earlier rows it ties with
SortedBy(rows, before) ==
    LET place(i) == 1 + Cardinality({j \in DOMAIN rows :
                                       \/ before[j, i]
                                       \/ ~before[i, j] /\ j < i})
    IN  [p \in DOMAIN rows |-> rows[CHOOSE i \in DOMAIN rows : place(i) = p]]

\* the categories a Target_Phar cell can hold, in the order groupby puts them
Pharmaceuticals == <<"CIP", "TET">>

\* mean of a column, NaN cells skipped
MeanOf(cells) ==
    [sum |-> SumSeq([k \in DOMAIN SelectSeq(cells, IsNum) |->
                       SelectSeq(cells, IsNum)[k].n]),
     n |-> Len(SelectSeq(cells, IsNum))]

\* groupby("Target_Phar").agg(n=size, MAE=mean of abs_err, RMSE=root of the
\* mean of sq_err, MAPE=mean of APE_%): one row per category present, rows
\* with a missing category in none
ByDrug(oof) ==
    LET of(g)  == SelectSeq(oof, LAMBDA d : d.phar = g)
        row(g) == CHOOSE a \in {[phar |-> g, n |-> Len(q),
                                 MAE |-> MeanOf([k \in DOMAIN q |-> Num(q[k].abs_err)]),
                                 RMSE |-> MeanOf([k \in DOMAIN q |-> Num(q[k].sq_err)]),
                                 MAPE |-> MeanOf([k \in DOMAIN q |-> q[k].ape])] :
                                q \in {of(g)}} : TRUE
        present == SelectSeq(Pharmaceuticals, LAMBDA g : of(g) # <<>>)
    IN  [k \in DOMAIN present |-> row(present[k])]

\* the two sheets: the rows by abs_err descending, and, when df_meta gives
\* Target_Phar, the categories by MAE descending (None is <<>>)
oof_report(rows, meta) ==
    LET raw == [i \in DOMAIN rows |->
                  OofRow(i, [rows[i] EXCEPT !.phar = IF meta THEN @ ELSE ""])]
        oof == SortedBy(raw, [i \in DOMAIN raw, j \in DOMAIN raw |->
                                raw[i].abs_err > raw[j].abs_err])
        drg == ByDrug(oof)
    IN  [done |-> TRUE, meta |-> meta, detailed |-> oof,
         bydrug |-> IF meta
                    THEN SortedBy(drg, [i \in DOMAIN drg, j \in DOMAIN drg |->
                                          drg[i].MAE.sum * drg[j].MAE.n >
                                             drg[j].MAE.sum * drg[i].MAE.n])
                    ELSE <<>>]

-----------------------------------------------------------------------------
(* The OOF report computed on bounded training rows                        *)

MaxOofRows == 2

OofInputs ==
    [y_true : {-50, 0, 50, 100}, y_pred : {0, 100}, phar : {"CIP", "TET", ""}]

OOF_Init ==
    /\ ev_in \in {[rows |-> q, meta |-> b] :
                    q \in UNION {[1 .. len -> OofInputs] : len \in 1 .. MaxOofRows},
                    b \in BOOLEAN}
    /\ ev_out = [done |-> FALSE, meta |-> FALSE, detailed |-> <<>>, bydrug |-> <<>>]
    /\ FE_Idle /\ HPO_Idle /\ APP_Idle /\ TR_Idle

Oof_Export ==
    /\ ~ev_out.done
    /\ ev_out' = oof_report(ev_in.rows, ev_in.meta)
    /\ UNCHANGED <<ev_in, fe_vars, hpo_vars, app_vars, tr_vars>>

OOF_Next == Oof_Export

SpecOof == OOF_Init /\ [][OOF_Next]_vars

-----------------------------------------------------------------------------
(* Properties of the OOF report, checked under SpecOof                     *)

RECURSIVE SumOver(_, _)
SumOver(f, S) ==
    IF S = {} THEN 0
    ELSE LET x == CHOOSE x \in S : TRUE IN f[x] + SumOver(f, S \ {x})

\* Claim C22: a row's percentage error is null exactly when its true value
\* is zero and otherwise is 100 * |prediction - true| / true; a category's
\* mean percentage error is over its rows with a non-null percentage error
\* only, its count, MAE and RMSE are over all its rows
C22_PercentageErrorNullOnlyAtZero ==
    ev_out.done =>
        /\ {ev_out.detailed[k].idx : k \in DOMAIN ev_out.detailed} = DOMAIN ev_in.rows
        /\ Len(ev_out.detailed) = Len(ev_in.rows)
        /\ \A k \in DOMAIN ev_out.detailed :
              \A d \in {ev_out.detailed[k]} :
                 /\ d.y_true = ev_in.rows[d.idx].y_true
                 /\ d.y_pred = ev_in.rows[d.idx].y_pred
                 /\ IsNull(d.ape) <=> d.y_true = 0
                 /\ d.y_true # 0 =>
                       /\ IsNum(d.ape)
                       /\ d.ape.n * d.y_true = 100 * Abs(d.y_pred - d.y_true)
        /\ ev_out.meta =>
              {ev_out.bydrug[k].phar : k \in DOMAIN ev_out.bydrug} =
                 {ev_in.rows[i].phar : i \in DOMAIN ev_in.rows} \ {""}
        /\ \A k \in DOMAIN ev_out.bydrug :
              \A g \in {ev_out.bydrug[k]} :
                 LET all  == {i \in DOMAIN ev_in.rows : ev_in.rows[i].phar = g.phar}
                     some == {i \in all : ev_in.rows[i].y_true # 0}
                     dev  == [i \in DOMAIN ev_in.rows |->
                                Abs(ev_in.rows[i].y_pred - ev_in.rows[i].y_true)]
                 IN  /\ all # {}
                     /\ g.n = Cardinality(all)
                     /\ g.MAE = [sum |-> SumOver(dev, all), n |-> Cardinality(all)]
                     /\ g.RMSE = [sum |-> SumOver([i \in DOMAIN dev |-> dev[i] * dev[i]],
                                                  all),
                                  n |-> Cardinality(all)]
                     /\ g.MAPE.n = Cardinality(some)
                     /\ g.MAPE.sum =
                           SumOver([i \in DOMAIN dev |->
                                      IF ev_in.rows[i].y_true = 0 THEN 0
                                      ELSE (100 * dev[i]) \div ev_in.rows[i].y_true],
                                   some)

\* a category of two rows, one with a true value of zero: its count is 2 and
\* its mean percentage error is over the other row alone
C22_Witness ==
    /\ ev_out.done
    /\ ev_in.meta
    /\ Len(ev_in.rows) = 2
    /\ ev_in.rows[1] = [y_true |-> 0, y_pred |-> 100, phar |-> "TET"]
    /\ ev_in.rows[2] = [y_true |-> 50, y_pred |-> 100, phar |-> "TET"]
    /\ Len(ev_out.bydrug) = 1
    /\ ev_out.bydrug[1].n = 2
    /\ ev_out.bydrug[1].MAE = [sum |-> 150, n |-> 2]
    /\ ev_out.bydrug[1].MAPE = [sum |-> 100, n |-> 1]
    /\ IsNull(ev_out.detailed[1].ape)

====
